---- MODULE Spec2Model ----
(***************************************************************************)
(* Pantry deduction / unit reconciliation of the meal-planning application *)
(* (src/app/utils.py: sanitize_unit, the pint registry with its "cooking"  *)
(* context, consume_ingredients_from_recipe).                              *)
(*                                                                         *)
(* Text is modelled by TLA+ strings, on which TLC evaluates Len, Head,     *)
(* Tail, SubSeq and \o.  Floating-point magnitudes are modelled by exact   *)
(* rationals [n, d] in lowest terms (the rounding of binary floating point *)
(* is not modelled).  None and the empty string, which the code treats     *)
(* alike wherever it tests a unit ("if not unit_str"), are both "".        *)
(***************************************************************************)
EXTENDS Integers, Sequences, FiniteSets, TLC

(***************************************************************************)
(* Bounds of the model.                                                    *)
(***************************************************************************)
\* largest quantity a PantryItem starts with
MaxQty == 2
\* largest required quantity of a RecipeIngredient
MaxReq == 2
\* largest number of RecipeIngredients of a recipe
MaxRecipeLen == 2
\* longest quantity text given to convert_quantity_to_float
MaxTextLen == 5
\* largest number of requests followed one after the other
MaxRequests == 2

(***************************************************************************)
(* Python string methods used by the code.                                 *)
(***************************************************************************)
\* a letter outside ASCII, U+00C9 and U+00E9 (E and e with an acute accent):
\* strings here hold ASCII only, so the two are written as characters that
\* occur in no other modelled input
Accented == [upper |-> "^", lower |-> "~"]

UpperCase ==
    <<"A","B","C","D","E","F","G","H","I","J","K","L","M",
      "N","O","P","Q","R","S","T","U","V","W","X","Y","Z", Accented.upper>>

LowerCase ==
    <<"a","b","c","d","e","f","g","h","i","j","k","l","m",
      "n","o","p","q","r","s","t","u","v","w","x","y","z", Accented.lower>>

\* one character of str.lower()
LowerChar(c) ==
    IF \E i \in DOMAIN UpperCase : UpperCase[i] = c
    THEN LowerCase[CHOOSE i \in DOMAIN UpperCase : UpperCase[i] = c]
    ELSE c

RECURSIVE StrLower(_)
\* str.lower()
StrLower(s) ==
    IF s = "" THEN "" ELSE LowerChar(Head(s)) \o StrLower(Tail(s))

IsSpace(c) == c \in {" ", "\t", "\n", "\r"}

RECURSIVE StrLStrip(_)
StrLStrip(s) ==
    IF s # "" /\ IsSpace(Head(s)) THEN StrLStrip(Tail(s)) ELSE s

RECURSIVE StrRStripSet(_, _)
\* str.rstrip(chars): drops every trailing character that is in chars
StrRStripSet(s, chars) ==
    IF s # "" /\ SubSeq(s, Len(s), Len(s)) \in chars
    THEN StrRStripSet(SubSeq(s, 1, Len(s) - 1), chars)
    ELSE s

\* str.strip()
StrStrip(s) == StrRStripSet(StrLStrip(s), {" ", "\t", "\n", "\r"})

\* needle in hay
StrContains(hay, needle) ==
    \E i \in 1..(Len(hay) - Len(needle) + 1) :
        SubSeq(hay, i, i + Len(needle) - 1) = needle

RECURSIVE StrReplaceChar(_, _, _)
\* str.replace(old, new) for a one-character old
StrReplaceChar(s, old, new) ==
    IF s = "" THEN ""
    ELSE (IF Head(s) = old THEN new ELSE Head(s))
             \o StrReplaceChar(Tail(s), old, new)

(***************************************************************************)
(* sanitize_unit                                                           *)
(***************************************************************************)
unit_map ==
    [k \in {"oz", "ounce", "lb", "cup", "tsp", "teaspoon", "tbsp",
            "tablespoon", "g", "gram", "kg", "ml", "stick", "slice", "each",
            "clove", "head", "sprig", "bunch", "stalk", "ear", "fillet",
            "leaf", "piece", "pat", "link", "strip", "sheet"} |->
        CASE k \in {"oz", "ounce"} -> "fluid_ounce"
          [] k = "lb" -> "pound"
          [] k \in {"tsp", "teaspoon"} -> "teaspoon"
          [] k \in {"tbsp", "tablespoon"} -> "tablespoon"
          [] k \in {"g", "gram"} -> "gram"
          [] k = "kg" -> "kilogram"
          [] k = "ml" -> "milliliter"
          [] k = "stick" -> "stick_of_butter"
          [] OTHER -> k]

\* dict.get(key, default)
DictGet(dict, key, default) ==
    IF key \in DOMAIN dict THEN dict[key] ELSE default

\* a sanitizer that forgets .lower(): "Cups" no longer reads as "cup"
DepluralizeCaseSensitive(unit_str) == StrRStripSet(StrStrip(unit_str), {"s"})

\* unit_str.lower().strip().rstrip('s')
Depluralize(unit_str) == StrRStripSet(StrStrip(StrLower(unit_str)), {"s"})

sanitize_unit(unit_str) ==
    IF unit_str = "" THEN "dimensionless"
    ELSE DictGet(unit_map, Depluralize(unit_str), Depluralize(unit_str))

(***************************************************************************)
(* Magnitudes: exact rationals in lowest terms, d > 0.                     *)
(***************************************************************************)
RECURSIVE Gcd(_, _)
Gcd(a, b) == IF b = 0 THEN a ELSE Gcd(b, a % b)

Abs(x) == IF x < 0 THEN 0 - x ELSE x

Rat(n, d) ==
    LET s == IF d < 0 THEN 0 - 1 ELSE 1
        g == Gcd(Abs(n), Abs(d))
    IN  [n |-> (s * n) \div g, d |-> (s * d) \div g]

RInt(k) == [n |-> k, d |-> 1]

RSub(a, b) == Rat(a.n * b.d - b.n * a.d, a.d * b.d)

RMul(a, b) == Rat(a.n * b.n, a.d * b.d)

RDiv(a, b) == Rat(a.n * b.d, a.d * b.n)

RLess(a, b) == a.n * b.d < b.n * a.d

\* a deduction stored without max(0, ...)
Max0NoClamp(x) == x

\* max(0, x): Python keeps the first argument unless the second is greater
Max0(x) == IF RLess(RInt(0), x) THEN x ELSE RInt(0)

(***************************************************************************)
(* The pint unit registry (ureg).  PintUnits is the part of pint's default *)
(* registry the modelled unit strings reach: each unit's dimension and its *)
(* size in the base unit of that dimension (teaspoon for volume, gram for  *)
(* mass).  pint's pound and milliliter, whose sizes are not ratios of      *)
(* small integers, are left out, and no modelled unit string names them.   *)
(* CustomUnits are the definitions loaded from app/unit_definitions.txt,   *)
(* a family of dimensionless count units.                                  *)
(***************************************************************************)
PintUnits ==
    [u \in {"dimensionless", "teaspoon", "tablespoon", "fluid_ounce", "cup",
            "gram", "kilogram"} |->
        CASE u = "dimensionless" -> [dim |-> "dimensionless", size |-> RInt(1)]
          [] u = "teaspoon" -> [dim |-> "volume", size |-> RInt(1)]
          [] u = "tablespoon" -> [dim |-> "volume", size |-> RInt(3)]
          [] u = "fluid_ounce" -> [dim |-> "volume", size |-> RInt(6)]
          [] u = "cup" -> [dim |-> "volume", size |-> RInt(48)]
          [] u = "gram" -> [dim |-> "mass", size |-> RInt(1)]
          [] u = "kilogram" -> [dim |-> "mass", size |-> RInt(1000)]]

CustomUnits ==
    [u \in {"stick_of_butter", "clove", "slice", "each"} |->
        [dim |-> "dimensionless", size |-> RInt(1)]]

Registry == PintUnits @@ CustomUnits

UndefinedUnitError(name) ==
    [type |-> "UndefinedUnitError",
     str |-> "'" \o name \o "' is not defined in the unit registry"]

DimensionalityError(units1, units2) ==
    [type |-> "DimensionalityError",
     str |-> "Cannot convert from '" \o units1 \o "' to '" \o units2 \o "'"]

\* str(KeyError(key)) is repr(key)
KeyError(key) == [type |-> "KeyError", str |-> "'" \o key \o "'"]

Ok(value) == [ok |-> TRUE, value |-> value]

Raise(exc) == [ok |-> FALSE, exc |-> exc]

\* ureg(name): the unit quantity 1 * name, or UndefinedUnitError
ureg(name) ==
    IF name = "" THEN Ok("dimensionless")
    ELSE IF name \in DOMAIN Registry THEN Ok(name)
    ELSE Raise(UndefinedUnitError(name))

(***************************************************************************)
(* The "cooking" context: per-substance densities, grams per cup.          *)
(***************************************************************************)
cooking_conversions ==
    [s \in {"all_purpose_flour", "bread_flour", "cake_flour",
            "whole_wheat_flour", "granulated_sugar", "brown_sugar",
            "powdered_sugar", "baking_soda", "baking_powder", "cocoa_powder",
            "cornstarch", "salt", "butter", "oil", "water", "milk",
            "heavy_cream", "honey", "molasses", "chopped_nuts", "oats",
            "rice_uncooked", "rice_cooked", "parmesan_cheese",
            "cooked_chicken"} |->
        CASE s = "all_purpose_flour" -> 120 [] s = "bread_flour" -> 127
          [] s = "cake_flour" -> 113 [] s = "whole_wheat_flour" -> 113
          [] s = "granulated_sugar" -> 200 [] s = "brown_sugar" -> 213
          [] s = "powdered_sugar" -> 113 [] s = "baking_soda" -> 220
          [] s = "baking_powder" -> 184 [] s = "cocoa_powder" -> 85
          [] s = "cornstarch" -> 113 [] s = "salt" -> 273
          [] s = "butter" -> 227 [] s = "oil" -> 213
          [] s = "water" -> 236 [] s = "milk" -> 241
          [] s = "heavy_cream" -> 232 [] s = "honey" -> 340
          [] s = "molasses" -> 340 [] s = "chopped_nuts" -> 113
          [] s = "oats" -> 85 [] s = "rice_uncooked" -> 184
          [] s = "rice_cooked" -> 170 [] s = "parmesan_cheese" -> 100
          [] s = "cooked_chicken" -> 140]

\* densities[substance], in gram / cup; a missing key raises KeyError
densities(substance) ==
    IF substance \in DOMAIN cooking_conversions
    THEN Ok(RInt(cooking_conversions[substance]))
    ELSE Raise(KeyError(substance))

\* a magnitude in unit src expressed in unit dst of the same dimension
Rescale(mag, src, dst) ==
    RDiv(RMul(mag, Registry[src].size), Registry[dst].size)

\* mass_to_volume: quantity / densities[substance], then to dst
mass_to_volume(mag, src, dst, substance) ==
    LET rho == densities(substance)
    IN  IF ~rho.ok THEN rho
        ELSE Ok(Rescale(RDiv(Rescale(mag, src, "gram"), rho.value), "cup", dst))

\* volume_to_mass: quantity * densities[substance], then to dst
volume_to_mass(mag, src, dst, substance) ==
    LET rho == densities(substance)
    IN  IF ~rho.ok THEN rho
        ELSE Ok(Rescale(RMul(Rescale(mag, src, "cup"), rho.value), "gram", dst))

\* Quantity.to(dst) while the cooking context is active for substance
ConvertInContext(mag, src, dst, substance) ==
    LET sd == Registry[src].dim
        dd == Registry[dst].dim
    IN  CASE sd = dd -> Ok(Rescale(mag, src, dst))
          [] sd = "mass" /\ dd = "volume" ->
                mass_to_volume(mag, src, dst, substance)
          [] sd = "volume" /\ dd = "mass" ->
                volume_to_mass(mag, src, dst, substance)
          [] OTHER -> Raise(DimensionalityError(src, dst))

\* Quantity.is_compatible_with(other) with an active context: tries the
\* conversion, answers False on DimensionalityError and lets any other
\* exception through
is_compatible_with(mag, src, dst, substance) ==
    LET c == ConvertInContext(mag, src, dst, substance)
    IN  IF c.ok THEN Ok(TRUE)
        ELSE IF c.exc.type = "DimensionalityError" THEN Ok(FALSE)
        ELSE c

(***************************************************************************)
(* convert_quantity_to_float.  A Python value is [type, value]; the text   *)
(* of a str is a TLA+ string.  TLA+ strings hold ASCII only, so each glyph *)
(* of the unicodes table is written as one letter that occurs in no other  *)
(* modelled input: float() rejects the letter as it rejects the glyph.     *)
(***************************************************************************)
PyStr(text) == [type |-> "str", value |-> text]

PyInt(k) == [type |-> "int", value |-> k]

PyNone == [type |-> "NoneType", value |-> ""]

\* the six keys of unicodes: U+00BD, U+2153, U+2154, U+00BC, U+00BE, U+2155
Glyph ==
    [one_half |-> "h", one_third |-> "t", two_thirds |-> "w",
     one_quarter |-> "q", three_quarters |-> "r", one_fifth |-> "f"]

\* line 41
unicodes ==
    [g \in {Glyph.one_half, Glyph.one_third, Glyph.two_thirds,
            Glyph.one_quarter, Glyph.three_quarters, Glyph.one_fifth} |->
        CASE g = Glyph.one_half -> Rat(1, 2)
          [] g = Glyph.one_third -> Rat(33, 100)
          [] g = Glyph.two_thirds -> Rat(67, 100)
          [] g = Glyph.one_quarter -> Rat(1, 4)
          [] g = Glyph.three_quarters -> Rat(3, 4)
          [] g = Glyph.one_fifth -> Rat(1, 5)]

Digits == <<"0", "1", "2", "3", "4", "5", "6", "7", "8", "9">>

IsDigit(c) == \E i \in 1..10 : Digits[i] = c

DigitValue(c) == (CHOOSE i \in 1..10 : Digits[i] = c) - 1

RECURSIVE IsDigits(_)
\* a non-empty run of decimal digits
IsDigits(s) ==
    /\ s # ""
    /\ IsDigit(Head(s))
    /\ (Len(s) = 1 \/ IsDigits(Tail(s)))

RECURSIVE DecimalValue(_)
DecimalValue(s) ==
    IF s = "" THEN 0
    ELSE 10 * DecimalValue(SubSeq(s, 1, Len(s) - 1))
            + DigitValue(SubSeq(s, Len(s), Len(s)))

RECURSIVE StrSplit(_, _)
\* str.split(sep) for a one-character sep: never an empty list
StrSplit(s, sep) ==
    IF s = "" THEN <<"">>
    ELSE LET rest == StrSplit(Tail(s), sep)
         IN  IF Head(s) = sep THEN <<"">> \o rest
             ELSE <<Head(s) \o rest[1]>> \o Tail(rest)

ValueError(text) ==
    [type |-> "ValueError",
     str |-> "could not convert string to float: '" \o text \o "'"]

TypeError ==
    [type |-> "TypeError",
     str |-> "float() argument must be a string or a real number"]

ZeroDivisionError ==
    [type |-> "ZeroDivisionError", str |-> "float division by zero"]

IndexError == [type |-> "IndexError", str |-> "list index out of range"]

\* float(text) on the modelled alphabet (digits, a sign, blanks, "/" and the
\* glyph letters): surrounding whitespace is dropped and a run of digits,
\* with or without a sign before it, is read
PyFloatOfStr(text) ==
    LET stripped == StrStrip(text)
        signed == stripped # "" /\ Head(stripped) \in {"-", "+"}
        digits == IF signed THEN Tail(stripped) ELSE stripped
    IN  IF ~IsDigits(digits) THEN Raise(ValueError(text))
        ELSE IF signed /\ Head(stripped) = "-"
        THEN Ok(RInt(0 - DecimalValue(digits)))
        ELSE Ok(RInt(DecimalValue(digits)))

\* float(x)
PyFloat(x) ==
    CASE x.type = "str" -> PyFloatOfStr(x.value)
      [] x.type = "int" -> Ok(RInt(x.value))
      [] OTHER -> Raise(TypeError)

\* numerator / denominator
PyTrueDiv(numerator, denominator) ==
    IF denominator.n = 0 THEN Raise(ZeroDivisionError)
    ELSE Ok(RDiv(numerator, denominator))

\* list[i], 0-based
PyIndex(list, i) ==
    IF i + 1 \in DOMAIN list THEN Ok(list[i + 1]) ELSE Raise(IndexError)

\* lines 53-56, and lines 48-50 for the fraction of a mixed number
ParseFraction(text) ==
    LET frac_parts == StrSplit(text, "/")
        numerator == PyFloatOfStr(frac_parts[1])
        denominator_str == PyIndex(frac_parts, 1)
    IN  IF ~numerator.ok THEN numerator
        ELSE IF ~denominator_str.ok THEN denominator_str
        ELSE LET denominator == PyFloatOfStr(denominator_str.value)
             IN  IF ~denominator.ok THEN denominator
                 ELSE PyTrueDiv(numerator.value, denominator.value)

\* whole_num + fraction
RAdd(a, b) == Rat(a.n * b.d + b.n * a.d, a.d * b.d)

\* a parser without the branch for mixed numbers
ParseMixedAsFraction(text) == ParseFraction(text)

\* lines 46-51
ParseMixedNumber(text) ==
    LET parts == StrSplit(text, " ")
        whole_num == PyFloatOfStr(parts[1])
    IN  IF ~whole_num.ok THEN whole_num
        ELSE LET fraction == ParseFraction(parts[2])
             IN  IF ~fraction.ok THEN fraction
                 ELSE Ok(RAdd(whole_num.value, fraction.value))

\* lines 41-58: the body of the try block
ParseQuantity(text) ==
    IF text \in DOMAIN unicodes THEN Ok(unicodes[text])
    ELSE IF StrContains(text, " ") /\ StrContains(text, "/")
         THEN ParseMixedNumber(text)
    ELSE IF StrContains(text, "/") THEN ParseFraction(text)
    ELSE PyFloatOfStr(text)

\* the result of a try block whose except clause names the types caught and
\* returns 0.0
ExceptReturnZero(attempt, caught) ==
    IF ~attempt.ok /\ attempt.exc.type \in caught THEN Ok(RInt(0))
    ELSE attempt

\* the value returned, or the exception that leaves the function
convert_quantity_to_float(quantity_str) ==
    IF quantity_str.type # "str"
    THEN ExceptReturnZero(PyFloat(quantity_str), {"ValueError", "TypeError"})
    ELSE ExceptReturnZero(ParseQuantity(quantity_str.value),
                          {"ValueError", "ZeroDivisionError"})

(***************************************************************************)
(* The database.  Ingredient rows are fixed: three names, of which "Oil"   *)
(* is contained in the other two (in one of them in another case, as the   *)
(* routes that store a name as typed allow) and is alone a key of the      *)
(* density table.                                                          *)
(* A PantryItem row is [household_id, ingredient_id, quantity, unit]; its  *)
(* primary key is its position in the table.                               *)
(***************************************************************************)
Ingredient ==
    <<[name |-> "Oil", is_container |-> TRUE, consumable_unit |-> "cup"],
      [name |-> "Olive Oil", is_container |-> TRUE, consumable_unit |-> "Cups"],
      [name |-> "Chili oil", is_container |-> TRUE, consumable_unit |-> "box"]>>

IngredientIds == DOMAIN Ingredient

HouseholdIds == {1, 2}

\* the unit strings a RecipeIngredient is given
RecipeUnits == {"Cups", "tbsp", "g", "box", ""}

\* the RecipeIngredient rows a recipe may hold; the column is NOT NULL with
\* default 0, and the recipe forms store a negative number as it is typed
RecipeIngredient ==
    [ingredient_id : IngredientIds, quantity : 0..MaxReq, unit : RecipeUnits]
        \cup [ingredient_id : IngredientIds, quantity : {0 - 1},
              unit : {"Cups"}]

\* the value of req_ing before the loop binds it
NoIngredient == [ingredient_id |-> 0, quantity |-> 0, unit |-> ""]

\* the user the requests are made by, and that user's household
current_user == [household_id |-> 1]

VARIABLES
    pantry,             \* the PantryItem table
    pc,                 \* position in consume_ingredients_from_recipe
    all_pantry_items,   \* the list read at the start of the call (row keys)
    iterations,         \* RecipeIngredients the for-loop has taken so far
    req_ing,            \* the loop variable
    updated,            \* first list returned
    skipped,            \* second list returned
    before              \* history: pantry, updated and skipped as they were
                        \* when the for-loop last took an ingredient

\* a call of one of the pure functions, studied on its own
VARIABLES
    call,               \* the function called and its arguments
    ret                 \* what the call returned, once it has

\* state that only some of the specifications below use
VARIABLES
    earlier,            \* history: before and req_ing of the iteration
                        \* that preceded the current one
    sessions,           \* the database sessions of concurrent requests
    requests,           \* requests served so far
    ingredient_table,   \* the Ingredient table, where requests add to it
    database_url,       \* SQLALCHEMY_DATABASE_URI: the database in use
    meal_plan,          \* the MealPlan rows of one slot of the calendar
    User                \* the User table

vars ==
    <<pantry, pc, all_pantry_items, iterations, req_ing, updated, skipped,
      before, call, ret, earlier, sessions, requests, ingredient_table,
      database_url, meal_plan, User>>

rest_vars ==
    <<earlier, sessions, requests, ingredient_table, database_url, meal_plan,
      User>>

Snapshot(table, upd, skp) ==
    [pantry |-> table, updated |-> upd, skipped |-> skp]

\* no function is being studied on its own
NoCall == [fn |-> "none"]

Pending == [returned |-> FALSE]

Returned(value) == [returned |-> TRUE, value |-> value]

FunctionsUnused == call = NoCall /\ ret = Pending

NoEarlier ==
    [before |-> Snapshot(<<>>, <<>>, <<>>), req_ing |-> NoIngredient]

\* __init__.py line 57: the database used unless DATABASE_URL names another
DefaultDatabase == "sqlite:///meal_engine.db"

RestUnused ==
    /\ earlier = NoEarlier
    /\ sessions = <<>>
    /\ requests = 0
    /\ ingredient_table = <<>>
    /\ database_url = DefaultDatabase
    /\ meal_plan = <<>>
    /\ User = <<>>

\* the unit the pantry 'add' request stores for an ingredient
PantryAddUnit(ingredient_id) ==
    IF Ingredient[ingredient_id].is_container
    THEN Ingredient[ingredient_id].consumable_unit
    ELSE ""

\* the rows the pantry 'add' request can have stored for a household: at most
\* one per ingredient, in ingredient order
RECURSIVE StockedRows(_, _)
StockedRows(h, i) ==
    IF i > Len(Ingredient) THEN {<<>>}
    ELSE LET rest == StockedRows(h, i + 1)
         IN  rest \cup
             {<<[household_id |-> h, ingredient_id |-> i,
                 quantity |-> RInt(q), unit |-> PantryAddUnit(i)]>> \o t :
                 q \in 0..MaxQty, t \in rest}

\* what another household has stocked
OtherHousehold ==
    <<[household_id |-> 2, ingredient_id |-> 1,
       quantity |-> RInt(MaxQty), unit |-> PantryAddUnit(1)]>>

Init ==
    /\ pantry \in {OtherHousehold \o rows :
                      rows \in StockedRows(current_user.household_id, 1)}
    /\ pc = "idle"
    /\ all_pantry_items = <<>>
    /\ iterations = 0
    /\ req_ing = NoIngredient
    /\ updated = <<>>
    /\ skipped = <<>>
    /\ before = Snapshot(pantry, <<>>, <<>>)
    /\ FunctionsUnused
    /\ RestUnused

(***************************************************************************)
(* consume_ingredients_from_recipe(user, recipe)                           *)
(***************************************************************************)
\* a query without the household filter
QueryEveryHousehold(table, h) == [k \in DOMAIN table |-> k]

\* PantryItem.query.filter_by(household_id=...).all(): the keys of the
\* household's rows, in primary-key order
QueryPantry(table, h) ==
    SelectSeq([k \in DOMAIN table |-> k],
              LAMBDA k : table[k].household_id = h)

\* a search that goes straight to the substring step
ExactMatchSkipped(table, items, req) == 0

\* Step 1: the first listed item of the required ingredient, 0 when none
ExactMatch(table, items, req) ==
    LET hits == SelectSeq(items,
                    LAMBDA k : table[k].ingredient_id = req.ingredient_id)
    IN  IF hits = <<>> THEN 0 ELSE hits[1]

\* a search for the items whose name the search term contains
SubstitutesContained(table, items, req) ==
    SelectSeq(items,
        LAMBDA k : StrContains(StrLower(Ingredient[req.ingredient_id].name),
                               StrLower(Ingredient[table[k].ingredient_id].name)))

\* Step 2: the listed items whose ingredient name contains the search term
Substitutes(table, items, req) ==
    SelectSeq(items,
        LAMBDA k : StrContains(StrLower(Ingredient[table[k].ingredient_id].name),
                               StrLower(Ingredient[req.ingredient_id].name)))

RECURSIVE StrJoin(_, _)
\* sep.join(strs)
StrJoin(sep, strs) ==
    IF strs = <<>> THEN ""
    ELSE IF Len(strs) = 1 THEN strs[1]
    ELSE strs[1] \o sep \o StrJoin(sep, Tail(strs))

\* the entry skipped receives for an ambiguous search
MultipleSubstitutes(table, req, substitutes) ==
    Ingredient[req.ingredient_id].name \o " (Multiple substitutes found: "
        \o StrJoin(", ", [j \in DOMAIN substitutes |->
                             Ingredient[table[substitutes[j]].ingredient_id].name])
        \o ")"

\* a search that settles on the first substitute however many there are
MatchFirstSubstitute(table, items, req) ==
    LET exact == ExactMatch(table, items, req)
        substitutes == Substitutes(table, items, req)
    IN  IF exact # 0 THEN [kind |-> "item", key |-> exact]
        ELSE IF Len(substitutes) >= 1
             THEN [kind |-> "item", key |-> substitutes[1]]
        ELSE [kind |-> "none"]

\* a search that reports an ingredient the pantry does not hold
MatchReportsMissing(table, items, req) ==
    LET exact == ExactMatch(table, items, req)
        substitutes == Substitutes(table, items, req)
    IN  IF exact # 0 THEN [kind |-> "item", key |-> exact]
        ELSE IF Len(substitutes) = 1
             THEN [kind |-> "item", key |-> substitutes[1]]
        ELSE IF Len(substitutes) > 1
             THEN [kind |-> "ambiguous",
                   entry |-> MultipleSubstitutes(table, req, substitutes)]
        ELSE [kind |-> "ambiguous",
              entry |-> Ingredient[req.ingredient_id].name
                            \o " (Not in pantry)"]

\* a search that settles on the substitute listed last
MatchLastSubstitute(table, items, req) ==
    LET exact == ExactMatch(table, items, req)
        substitutes == Substitutes(table, items, req)
    IN  IF exact # 0 THEN [kind |-> "item", key |-> exact]
        ELSE IF Len(substitutes) >= 1
             THEN [kind |-> "item", key |-> substitutes[Len(substitutes)]]
        ELSE [kind |-> "none"]

\* the item the two steps settle on: [kind |-> "item", key |-> k],
\* [kind |-> "ambiguous", entry |-> text] or [kind |-> "none"]
MatchPantryItem(table, items, req) ==
    LET exact == ExactMatch(table, items, req)
        substitutes == Substitutes(table, items, req)
    IN  IF exact # 0 THEN [kind |-> "item", key |-> exact]
        ELSE IF Len(substitutes) = 1
             THEN [kind |-> "item", key |-> substitutes[1]]
        ELSE IF Len(substitutes) > 1
             THEN [kind |-> "ambiguous",
                   entry |-> MultipleSubstitutes(table, req, substitutes)]
        ELSE [kind |-> "none"]

\* the substance the cooking context is entered with
Substance(name) == StrReplaceChar(StrLower(name), " ", "_")

\* a deduction that subtracts the magnitudes and never looks at the units
TryDeductMagnitudes(req, item) ==
    Ok(Max0(RSub(item.quantity, RInt(req.quantity))))

\* the body of the try block: the new quantity of the item, or the
\* exception raised on the way
TryDeduct(req, item) ==
    LET substance == Substance(Ingredient[item.ingredient_id].name)
        recipe_unit == ureg(sanitize_unit(req.unit))
        pantry_unit == ureg(sanitize_unit(item.unit))
    IN  IF ~recipe_unit.ok THEN recipe_unit
        ELSE IF ~pantry_unit.ok THEN pantry_unit
        ELSE
        LET compatible ==
                is_compatible_with(RInt(req.quantity), recipe_unit.value,
                                   pantry_unit.value, substance)
            in_recipe_units ==
                ConvertInContext(item.quantity, pantry_unit.value,
                                 recipe_unit.value, substance)
        IN  IF ~compatible.ok THEN compatible
            ELSE IF ~compatible.value
                 THEN Raise(DimensionalityError(recipe_unit.value,
                                                pantry_unit.value))
            ELSE IF ~in_recipe_units.ok THEN in_recipe_units
            ELSE
            LET new_pantry_qty ==
                    ConvertInContext(
                        RSub(in_recipe_units.value, RInt(req.quantity)),
                        recipe_unit.value, pantry_unit.value, substance)
            IN  IF ~new_pantry_qty.ok THEN new_pantry_qty
                ELSE Ok(Max0(new_pantry_qty.value))

\* a loop body without the try block: nothing is caught
ExceptNothing(exc) == FALSE

\* "except (DimensionalityError, UndefinedUnitError)", as the shopping-list
\* stocking route has it
ExceptPintErrors(exc) ==
    exc.type \in {"UndefinedUnitError", "DimensionalityError"}

\* "except Exception": every exception the try block can raise is caught
ExceptException(exc) ==
    exc.type \in {"UndefinedUnitError", "DimensionalityError", "KeyError"}

\* an entry that drops the exception's own message
ErrorEntryUnitMismatch(name, exc) == name \o " (Error: Unit Mismatch)"

\* the entry skipped receives for a caught exception
ErrorEntry(name, exc) ==
    name \o " (Error: " \o (IF exc.str # "" THEN exc.str ELSE "Unit Mismatch")
         \o ")"

\* lines 142-143: the call reads the household's pantry once
Call(user) ==
    /\ pc = "idle"
    /\ pc' = "loop"
    /\ updated' = <<>>
    /\ skipped' = <<>>
    /\ all_pantry_items' = QueryPantry(pantry, user.household_id)
    /\ before' = Snapshot(pantry, <<>>, <<>>)
    /\ UNCHANGED <<pantry, iterations, req_ing>>

\* line 145: the for-loop takes the next RecipeIngredient of the recipe
NextIngredient(r) ==
    /\ pc = "loop"
    /\ iterations < MaxRecipeLen
    /\ iterations' = iterations + 1
    /\ req_ing' = r
    /\ pc' = "body"
    /\ before' = Snapshot(pantry, updated, skipped)
    /\ UNCHANGED <<pantry, all_pantry_items, updated, skipped>>

\* a loop that reports the ingredients of which nothing is required
SkipNoQuantityReported ==
    /\ pc = "body"
    /\ req_ing.quantity <= 0
    /\ pc' = "loop"
    /\ skipped' = Append(skipped, Ingredient[req_ing.ingredient_id].name
                                      \o " (Error: no quantity)")
    /\ UNCHANGED <<pantry, all_pantry_items, iterations, req_ing, updated,
                   before>>

\* lines 146-147: nothing is required of this ingredient
SkipNoQuantity ==
    /\ pc = "body"
    /\ req_ing.quantity <= 0
    /\ pc' = "loop"
    /\ UNCHANGED <<pantry, all_pantry_items, iterations, req_ing, updated,
                   skipped, before>>

\* a loop body that deducts from the quantities the recipe started with
\* rather than from the rows the earlier iterations have written to
LoopBodyOnCopies ==
    /\ pc = "body"
    /\ req_ing.quantity > 0
    /\ LET m == MatchPantryItem(pantry, all_pantry_items, req_ing)
           loaded == IF earlier.req_ing = NoIngredient
                     THEN pantry ELSE earlier.before.pantry
       IN  /\ m.kind = "item"
           /\ TryDeduct(req_ing, loaded[m.key]).ok
           /\ pantry' = [pantry EXCEPT ![m.key].quantity =
                            TryDeduct(req_ing, loaded[m.key]).value]
           /\ updated' =
                  Append(updated, Ingredient[pantry[m.key].ingredient_id].name)
    /\ pc' = "loop"
    /\ UNCHANGED <<all_pantry_items, iterations, req_ing, skipped, before>>

\* a loop body that records every outcome under the name the recipe asks for
LoopBodyRequiredName ==
    /\ pc = "body"
    /\ req_ing.quantity > 0
    /\ LET m == MatchPantryItem(pantry, all_pantry_items, req_ing)
           name == Ingredient[req_ing.ingredient_id].name
       IN  CASE m.kind = "ambiguous" ->
                  /\ skipped' = Append(skipped, m.entry)
                  /\ UNCHANGED <<pantry, updated>>
             [] m.kind = "none" ->
                  UNCHANGED <<pantry, updated, skipped>>
             [] m.kind = "item" ->
                  IF TryDeduct(req_ing, pantry[m.key]).ok
                  THEN /\ pantry' = [pantry EXCEPT ![m.key].quantity =
                                        TryDeduct(req_ing, pantry[m.key]).value]
                       /\ updated' = Append(updated, name)
                       /\ UNCHANGED skipped
                  ELSE /\ skipped' =
                              Append(skipped,
                                     ErrorEntry(name,
                                         TryDeduct(req_ing, pantry[m.key]).exc))
                       /\ UNCHANGED <<pantry, updated>>
    /\ pc' = "loop"
    /\ UNCHANGED <<all_pantry_items, iterations, req_ing, before>>

\* lines 149-189: match, then deduct or report
LoopBody ==
    /\ pc = "body"
    /\ req_ing.quantity > 0
    /\ LET m == MatchPantryItem(pantry, all_pantry_items, req_ing)
       IN  CASE m.kind = "ambiguous" ->
                  /\ skipped' = Append(skipped, m.entry)
                  /\ pc' = "loop"
                  /\ UNCHANGED <<pantry, updated>>
             [] m.kind = "none" ->
                  /\ pc' = "loop"
                  /\ UNCHANGED <<pantry, updated, skipped>>
             [] m.kind = "item" ->
                  LET pantry_item == pantry[m.key]
                      name == Ingredient[pantry_item.ingredient_id].name
                      result == TryDeduct(req_ing, pantry_item)
                  IN  IF result.ok
                      THEN /\ pantry' = [pantry EXCEPT
                                            ![m.key].quantity = result.value]
                           /\ updated' = Append(updated, name)
                           /\ pc' = "loop"
                           /\ UNCHANGED skipped
                      ELSE IF ExceptException(result.exc)
                      THEN /\ skipped' = Append(skipped,
                                                ErrorEntry(name, result.exc))
                           /\ pc' = "loop"
                           /\ UNCHANGED <<pantry, updated>>
                      ELSE /\ pc' = "raised"
                           /\ UNCHANGED <<pantry, updated, skipped>>
    /\ UNCHANGED <<all_pantry_items, iterations, req_ing, before>>

\* line 191: the recipe is exhausted and both lists are returned
Return ==
    /\ pc = "loop"
    /\ pc' = "done"
    /\ req_ing' = NoIngredient
    /\ before' = Snapshot(pantry, updated, skipped)
    /\ UNCHANGED <<pantry, all_pantry_items, iterations, updated, skipped>>

Next ==
    \/ Call(current_user) /\ UNCHANGED <<call, ret, rest_vars>>
    \/ \E r \in RecipeIngredient : NextIngredient(r) /\ UNCHANGED <<call, ret, rest_vars>>
    \/ SkipNoQuantity /\ UNCHANGED <<call, ret, rest_vars>>
    \/ LoopBody /\ UNCHANGED <<call, ret, rest_vars>>
    \/ Return /\ UNCHANGED <<call, ret, rest_vars>>

Spec == Init /\ [][Next]_vars

(***************************************************************************)
(* Vocabulary of the properties.  They are stated on the state the loop    *)
(* body started from (before), the ingredient it handled (req_ing) and the *)
(* state it left, with the meaning of the unit strings and the matching    *)
(* rules written down independently of the operators above.                *)
(***************************************************************************)
\* what a unit string of the model denotes: its dimension and its size in
\* teaspoons (volume), grams (mass) or units (count); "box" denotes nothing
UnitMeaning(unit) ==
    CASE unit \in {"cup", "Cups"} -> [known |-> TRUE, dim |-> "volume", size |-> 48]
      [] unit = "tbsp" -> [known |-> TRUE, dim |-> "volume", size |-> 3]
      [] unit = "g" -> [known |-> TRUE, dim |-> "mass", size |-> 1]
      [] unit = "" -> [known |-> TRUE, dim |-> "count", size |-> 1]
      [] OTHER -> [known |-> FALSE, dim |-> "none", size |-> 1]

\* an iteration of the loop has run to its end for req_ing
Handled == pc # "body" /\ req_ing # NoIngredient

\* ... and req_ing required a positive quantity
Processed == Handled /\ req_ing.quantity > 0

RequiredName == Ingredient[req_ing.ingredient_id].name

ItemName(k) == Ingredient[before.pantry[k].ingredient_id].name

\* the household's PantryItems when the iteration started
HouseholdKeys ==
    {k \in DOMAIN before.pantry :
        before.pantry[k].household_id = current_user.household_id}

\* those of the required ingredient itself
ExactKeys ==
    {k \in HouseholdKeys :
        before.pantry[k].ingredient_id = req_ing.ingredient_id}

\* for each Ingredient row, the rows whose name contains its name, ignoring
\* case; the rows are fixed, so the relation is computed once
NameContains ==
    [i \in IngredientIds |->
        {j \in IngredientIds :
            StrContains(StrLower(Ingredient[j].name),
                        StrLower(Ingredient[i].name))}]

\* those whose name contains the required name, ignoring case
CandidateKeys ==
    {k \in HouseholdKeys :
        before.pantry[k].ingredient_id \in NameContains[req_ing.ingredient_id]}

NoExactMatch == ExactKeys = {}

Ambiguous == NoExactMatch /\ Cardinality(CandidateKeys) >= 2

NoMatch == NoExactMatch /\ CandidateKeys = {}

\* k is the item the matcher is to resolve req_ing to
ResolvedTo(k) ==
    IF NoExactMatch THEN CandidateKeys = {k} ELSE k \in ExactKeys

RecipeUnit == UnitMeaning(req_ing.unit)

PantryUnit(k) == UnitMeaning(before.pantry[k].unit)

UnrecognizedUnit(k) == ~RecipeUnit.known \/ ~PantryUnit(k).known

SameDimension(k) ==
    /\ RecipeUnit.known
    /\ PantryUnit(k).known
    /\ RecipeUnit.dim = PantryUnit(k).dim

\* one unit is a mass and the other a volume
MassAgainstVolume(k) ==
    /\ RecipeUnit.known
    /\ PantryUnit(k).known
    /\ {RecipeUnit.dim, PantryUnit(k).dim} = {"mass", "volume"}

\* the item's ingredient has a bridging rule (a density)
HasBridgingRule(k) == Substance(ItemName(k)) \in DOMAIN cooking_conversions

\* the two units can be converted into one another for item k
Compatible(k) ==
    SameDimension(k) \/ (MassAgainstVolume(k) /\ HasBridgingRule(k))

\* the required quantity expressed in the unit of item k; between a mass and
\* a volume the ingredient's density, in grams per cup of 48 teaspoons, is used
RequiredInPantryUnit(k) ==
    LET r == req_ing.quantity * RecipeUnit.size
        density == cooking_conversions[Substance(ItemName(k))]
    IN  CASE RecipeUnit.dim = PantryUnit(k).dim -> Rat(r, PantryUnit(k).size)
          [] RecipeUnit.dim = "mass" ->
                Rat(r * 48, density * PantryUnit(k).size)
          [] OTHER -> Rat(r * density, 48 * PantryUnit(k).size)

\* max(0, p - r)
ClampedDifference(p, r) == IF RLess(p, r) THEN RInt(0) ELSE RSub(p, r)

\* the iteration added exactly one entry to skipped and touched nothing else
SkippedWith(reason) ==
    /\ pantry = before.pantry
    /\ updated = before.updated
    /\ Len(skipped) = Len(before.skipped) + 1
    /\ SubSeq(skipped, 1, Len(before.skipped)) = before.skipped
    /\ StrContains(skipped[Len(skipped)], reason)

\* the iteration changed nothing at all
NothingChanged ==
    /\ pantry = before.pantry
    /\ updated = before.updated
    /\ skipped = before.skipped

\* the iteration deducted from item k alone and recorded its name
DeductedFrom(k, quantity) ==
    /\ pantry = [before.pantry EXCEPT ![k].quantity = quantity]
    /\ updated = Append(before.updated, ItemName(k))
    /\ skipped = before.skipped

(***************************************************************************)
(* C1: consumption never drives a PantryItem's quantity below zero: every  *)
(* quantity is >= 0 in every reachable state.                              *)
(***************************************************************************)
C1_NeverNegative ==
    \A k \in DOMAIN pantry : pantry[k].quantity.n >= 0

\* more was required than was on hand, and the item was left at 0
C1_Witness ==
    /\ Processed
    /\ \E k \in HouseholdKeys :
          /\ ResolvedTo(k)
          /\ SameDimension(k)
          /\ RLess(before.pantry[k].quantity, RequiredInPantryUnit(k))
          /\ RLess(RInt(0), before.pantry[k].quantity)
          /\ pantry[k].quantity = RInt(0)
          /\ updated # before.updated

(***************************************************************************)
(* C2: with no exact match and two or more PantryItems whose names contain *)
(* the required name, the ingredient is appended to skipped with every     *)
(* candidate name listed, no candidate is chosen and no quantity changes.  *)
(***************************************************************************)
C2_AmbiguousIsReported ==
    (Processed /\ Ambiguous) =>
        /\ SkippedWith(RequiredName \o " (Multiple substitutes found: ")
        /\ \A k \in CandidateKeys :
              StrContains(skipped[Len(skipped)], ItemName(k))

C2_Witness ==
    /\ Processed
    /\ Ambiguous
    /\ skipped # before.skipped
    /\ \E k \in CandidateKeys : before.pantry[k].quantity.n > 0

(***************************************************************************)
(* C3: when the household holds a PantryItem of the required ingredient,   *)
(* the matcher resolves to it and the fuzzy search is not run, even when   *)
(* other PantryItems have names containing the required name: the outcome  *)
(* is recorded under the exact item's name, nothing is reported ambiguous, *)
(* and only the exact item's quantity can change.                          *)
(***************************************************************************)
C3_ExactMatchFirst ==
    (Processed /\ ~NoExactMatch) =>
        /\ \A k \in DOMAIN pantry :
              k \notin ExactKeys => pantry[k] = before.pantry[k]
        /\ \/ /\ updated = Append(before.updated, RequiredName)
              /\ skipped = before.skipped
           \/ /\ updated = before.updated
              /\ Len(skipped) = Len(before.skipped) + 1
              /\ StrContains(skipped[Len(skipped)],
                             RequiredName \o " (Error: ")

\* an exact item and another item of a similar name; the exact one is used
C3_Witness ==
    /\ Processed
    /\ ~NoExactMatch
    /\ Cardinality(CandidateKeys) >= 2
    /\ updated = Append(before.updated, RequiredName)
    /\ \E k \in ExactKeys : pantry[k].quantity # before.pantry[k].quantity

(***************************************************************************)
(* C4: for a resolved PantryItem of quantity p and a required quantity r   *)
(* in a compatible unit, the item's quantity becomes max(0, p - r') with   *)
(* r' the requirement converted into the item's unit, and the item's name  *)
(* is appended to updated.                                                 *)
(***************************************************************************)
C4_DeductsAndClamps ==
    \A k \in DOMAIN before.pantry :
        (Processed /\ ResolvedTo(k) /\ Compatible(k)) =>
            DeductedFrom(k, ClampedDifference(before.pantry[k].quantity,
                                              RequiredInPantryUnit(k)))

\* a tablespoon taken from two cups leaves 31/16 cups
C4_Witness ==
    /\ Processed
    /\ req_ing.unit = "tbsp"
    /\ req_ing.quantity = 1
    /\ \E k \in HouseholdKeys :
          /\ ResolvedTo(k)
          /\ before.pantry[k].quantity = RInt(2)
          /\ pantry[k].quantity = Rat(31, 16)
          /\ updated = Append(before.updated, ItemName(k))

(***************************************************************************)
(* C5: the loop never aborts early: an ingredient that fails (ambiguous    *)
(* match, unrecognized unit, units that cannot be converted) leaves the    *)
(* loop running, and leaves the PantryItems, the list read at the start    *)
(* and updated as they were, so the ingredients after it are handled as    *)
(* if it had not been in the recipe.                                       *)
(***************************************************************************)
Fails ==
    \/ Ambiguous
    \/ \E k \in HouseholdKeys :
          ResolvedTo(k) /\ ~Compatible(k)

C5_NeverAbortsEarly ==
    (Processed /\ Fails) =>
        /\ pc = "loop"
        /\ pantry = before.pantry
        /\ updated = before.updated
        /\ all_pantry_items =
              SelectSeq([k \in DOMAIN pantry |-> k],
                        LAMBDA k : k \in HouseholdKeys)

\* an ingredient was deducted after another one of the recipe had failed
C5_Witness ==
    /\ Processed
    /\ before.skipped # <<>>
    /\ skipped = before.skipped
    /\ updated # before.updated
    /\ pantry # before.pantry

(***************************************************************************)
(* C6: for any pantry and any recipe the call terminates and returns both  *)
(* lists, every ingredient that fails is recorded in skipped, and no       *)
(* exception is raised to the caller.  Termination is stated by a variant: *)
(* StepsLeft is a natural number that every step of the call strictly      *)
(* decreases, so no run takes more than 2 * MaxRecipeLen + 2 steps, and    *)
(* the only way out of the loop is the return of (updated, skipped).       *)
(***************************************************************************)
StepsLeft ==
    CASE pc = "idle" -> 2 * MaxRecipeLen + 2
      [] pc = "loop" -> 2 * (MaxRecipeLen - iterations) + 1
      [] pc = "body" -> 2 * (MaxRecipeLen - iterations) + 2
      [] OTHER       -> 0

ReturnedBothLists ==
    /\ updated \in Seq(STRING)
    /\ skipped \in Seq(STRING)

C6_AlwaysReturns ==
    /\ [][StepsLeft' < StepsLeft]_vars
    /\ [](StepsLeft >= 0)
    /\ [](pc # "raised")
    /\ [](pc = "done" => ReturnedBothLists)
    /\ []((Processed /\ Fails) => Len(skipped) = Len(before.skipped) + 1)

\* every ingredient of the recipe failed, and the call returned all the same
C6_Witness ==
    /\ pc = "done"
    /\ iterations = MaxRecipeLen
    /\ Len(skipped) = MaxRecipeLen
    /\ updated = <<>>

(***************************************************************************)
(* C7: a required ingredient with neither an exact nor a fuzzy match is    *)
(* skipped silently: it appears in neither list and no PantryItem changes. *)
(***************************************************************************)
C7_NoMatchIsSilent ==
    (Processed /\ NoMatch) => (NothingChanged /\ pc = "loop")

\* a recipe of that one ingredient leaves updated = [] and skipped = []
C7_Witness ==
    /\ Processed
    /\ NoMatch
    /\ iterations = 1
    /\ updated = <<>>
    /\ skipped = <<>>
    /\ HouseholdKeys # {}

(***************************************************************************)
(* C8: a mass requirement against a volume PantryItem of an ingredient     *)
(* without a bridging rule leaves the quantity unchanged, does not add to  *)
(* updated, appends to skipped with a dimensionality-mismatch ("Cannot     *)
(* convert") reason, and the loop goes on.                                 *)
(***************************************************************************)
C8_MismatchIsReported ==
    \A k \in DOMAIN before.pantry :
        (Processed /\ ResolvedTo(k) /\ RecipeUnit.known /\ PantryUnit(k).known
            /\ RecipeUnit.dim = "mass" /\ PantryUnit(k).dim = "volume"
            /\ ~HasBridgingRule(k)) =>
                (SkippedWith("Cannot convert") /\ pc = "loop")

(***************************************************************************)
(* C9: when the recipe unit or the pantry unit is not a unit the registry  *)
(* knows, the ingredient is appended to skipped with an unrecognized-unit  *)
(* reason, which is not the dimensionality-mismatch reason, the quantity   *)
(* is unchanged and the loop goes on.                                      *)
(***************************************************************************)
C9_UnrecognizedUnitIsReported ==
    \A k \in DOMAIN before.pantry :
        (Processed /\ ResolvedTo(k) /\ UnrecognizedUnit(k)) =>
            /\ SkippedWith("is not defined in the unit registry")
            /\ ~StrContains(skipped[Len(skipped)], "Cannot convert")
            /\ pc = "loop"

\* a known recipe unit against a PantryItem kept in "box"
C9_Witness ==
    /\ Processed
    /\ RecipeUnit.known
    /\ \E k \in HouseholdKeys :
          /\ ResolvedTo(k)
          /\ ~PantryUnit(k).known
          /\ StrContains(skipped[Len(skipped)], "'box' is not defined")
    /\ skipped # before.skipped

(***************************************************************************)
(* C10: in a recipe whose positive-quantity ingredients all have an exact  *)
(* match with a compatible unit, updated receives the names in             *)
(* recipe order, skipped stays empty and each item is reduced by its       *)
(* requirement.  Stated per iteration: the lists start empty, such an      *)
(* ingredient appends its name to updated and reduces its item, leaving    *)
(* skipped alone, and an ingredient of no quantity changes nothing.        *)
(***************************************************************************)
C10_AllExactAllUpdated ==
    /\ (pc = "loop" /\ iterations = 0) => (updated = <<>> /\ skipped = <<>>)
    /\ (Handled /\ req_ing.quantity <= 0) => NothingChanged
    /\ \A k \in DOMAIN before.pantry :
          (Processed /\ k \in ExactKeys /\ Compatible(k)) =>
              /\ updated = Append(before.updated, RequiredName)
              /\ skipped = before.skipped
              /\ pantry = [before.pantry EXCEPT ![k].quantity =
                              ClampedDifference(@, RequiredInPantryUnit(k))]

\* 1 "Cups" of each of two stocked ingredients, taken from 2 "cup" and 2 "Cups"
C10_Witness ==
    /\ pc = "loop"
    /\ iterations = 2
    /\ updated = <<"Oil", "Olive Oil">>
    /\ skipped = <<>>
    /\ req_ing = [ingredient_id |-> 2, quantity |-> 1, unit |-> "Cups"]
    /\ \E k \in ExactKeys :
          /\ before.pantry[k].quantity = RInt(2)
          /\ pantry[k].quantity = RInt(1)
    /\ \E j \in HouseholdKeys :
          pantry[j].ingredient_id = 1 /\ pantry[j].quantity = RInt(1)


(***************************************************************************)
(* C15: mass and volume are incompatible for every ingredient: when one of *)
(* the recipe unit and the pantry unit is a mass and the other a volume,   *)
(* the loop body deducts nothing and records no update, whatever the name  *)
(* of the ingredient.                                                      *)
(***************************************************************************)
C15_MassVolumeNeverDeducts ==
    \A k \in DOMAIN before.pantry :
        (Processed /\ ResolvedTo(k) /\ MassAgainstVolume(k)) =>
            (pantry = before.pantry /\ updated = before.updated)

(***************************************************************************)
(* convert_quantity_to_float called on its own: QuantitySpec draws the     *)
(* argument from the texts of up to MaxTextLen characters over digits,     *)
(* blank and "/", the glyphs alone and next to another character, and a    *)
(* few values that are not strings.                                        *)
(***************************************************************************)
\* the consume call is not running and the pantry is empty
ConsumeUnused ==
    /\ pantry = <<>>
    /\ pc = "idle"
    /\ all_pantry_items = <<>>
    /\ iterations = 0
    /\ req_ing = NoIngredient
    /\ updated = <<>>
    /\ skipped = <<>>
    /\ before = Snapshot(<<>>, <<>>, <<>>)

consume_vars ==
    <<pantry, pc, all_pantry_items, iterations, req_ing, updated, skipped,
      before>>

QuantityChars == {"0", "1", "2", " ", "/"}

RECURSIVE TextsOfLen(_, _)
TextsOfLen(chars, n) ==
    IF n = 0 THEN {""}
    ELSE {c \o t : c \in chars, t \in TextsOfLen(chars, n - 1)}

QuantityTexts ==
    UNION {TextsOfLen(QuantityChars, n) : n \in 0..MaxTextLen}
        \cup DOMAIN unicodes
        \cup {"1" \o g : g \in DOMAIN unicodes}
        \cup {g \o " " : g \in DOMAIN unicodes}

QuantityValues ==
    {PyStr(text) : text \in QuantityTexts}
        \cup {PyInt(k) : k \in 0..2} \cup {PyNone}

QuantityInit ==
    /\ ConsumeUnused
    /\ call \in {[fn |-> "convert_quantity_to_float", quantity_str |-> q] :
                    q \in QuantityValues}
    /\ ret = Pending
    /\ RestUnused

CallConvertQuantity ==
    /\ call.fn = "convert_quantity_to_float"
    /\ ret = Pending
    /\ ret' = Returned(convert_quantity_to_float(call.quantity_str))
    /\ UNCHANGED <<consume_vars, call, rest_vars>>

QuantityNext == CallConvertQuantity

QuantitySpec == QuantityInit /\ [][QuantityNext]_vars

\* the call of convert_quantity_to_float has returned or raised
ConvertReturned == call.fn = "convert_quantity_to_float" /\ ret.returned

\* the text it was given, "" for an argument that is not a string
QuantityText ==
    IF call.quantity_str.type = "str" THEN call.quantity_str.value ELSE ""

\* the places of character c in text
PlacesOf(c, text) == {i \in 1..Len(text) : SubSeq(text, i, i) = c}

\* text reads N/D, two runs of digits around its only "/"
IsFraction(text) ==
    \E i \in PlacesOf("/", text) :
        /\ IsDigits(SubSeq(text, 1, i - 1))
        /\ IsDigits(SubSeq(text, i + 1, Len(text)))

Numerator(text) ==
    DecimalValue(SubSeq(text, 1, (CHOOSE i \in PlacesOf("/", text) : TRUE) - 1))

Denominator(text) ==
    DecimalValue(SubSeq(text, (CHOOSE i \in PlacesOf("/", text) : TRUE) + 1,
                        Len(text)))

\* text reads W N/D, a run of digits, its only blank and a fraction
IsMixedNumber(text) ==
    \E j \in PlacesOf(" ", text) :
        /\ IsDigits(SubSeq(text, 1, j - 1))
        /\ IsFraction(SubSeq(text, j + 1, Len(text)))

WholePart(text) ==
    SubSeq(text, 1, (CHOOSE j \in PlacesOf(" ", text) : TRUE) - 1)

FractionPart(text) ==
    SubSeq(text, (CHOOSE j \in PlacesOf(" ", text) : TRUE) + 1, Len(text))

\* text is none of: a glyph of the table, a number, a fraction or a mixed
\* number with a denominator other than 0
Malformed(text) ==
    /\ text \notin DOMAIN unicodes
    /\ ~IsDigits(StrStrip(text))
    /\ ~(IsFraction(text) /\ Denominator(text) # 0)
    /\ ~(IsMixedNumber(text) /\ Denominator(FractionPart(text)) # 0)

(***************************************************************************)
(* C16: convert_quantity_to_float is total on strings: for every string it *)
(* returns a number and raises nothing, and for every malformed string     *)
(* (tokens that are no numbers, a zero denominator, a fraction with parts  *)
(* missing or with extra tokens) the number is 0.0.                        *)
(***************************************************************************)
C16_TotalOnStrings ==
    (ConvertReturned /\ call.quantity_str.type = "str") =>
        /\ ret.value.ok
        /\ Malformed(QuantityText) => ret.value.value = RInt(0)

(***************************************************************************)
(* C17: a mixed number "W N/D" with D # 0 converts to W + N/D, a fraction  *)
(* "N/D" with D # 0 to N/D, and a glyph of the unicodes table to the       *)
(* table's value, the table being looked up before either form is tried.   *)
(***************************************************************************)
C17_MixedNumbersAndFractions ==
    (ConvertReturned /\ call.quantity_str.type = "str") =>
        LET text == QuantityText
        IN  /\ text \in DOMAIN unicodes => ret.value = Ok(unicodes[text])
            /\ (IsFraction(text) /\ Denominator(text) # 0) =>
                  ret.value = Ok(Rat(Numerator(text), Denominator(text)))
            /\ (IsMixedNumber(text) /\ Denominator(FractionPart(text)) # 0) =>
                  ret.value =
                      Ok(Rat(DecimalValue(WholePart(text))
                                 * Denominator(FractionPart(text))
                                 + Numerator(FractionPart(text)),
                             Denominator(FractionPart(text))))

\* "1 1/2" gave 1.5
C17_Witness ==
    /\ ConvertReturned
    /\ call.quantity_str = PyStr("1 1/2")
    /\ ret.value = Ok(Rat(3, 2))

(***************************************************************************)
(* sanitize_unit called on its own: UnitSpec draws the unit string from    *)
(* the keys and the values of unit_map, "dimensionless", their plurals,    *)
(* their capitalised and padded spellings, and the empty string.           *)
(***************************************************************************)
\* what sanitize_unit can return for a unit it knows
CanonicalNames ==
    {unit_map[key] : key \in DOMAIN unit_map} \cup {"dimensionless"}

UnitNames == DOMAIN unit_map \cup CanonicalNames

UnitTexts ==
    UnitNames
        \cup {name \o "s" : name \in UnitNames}
        \cup {" " \o name \o " " : name \in DOMAIN unit_map}
        \cup {"Cups", "TBSP", "Cloves", "box", "glass", ""}
        \cup {"cupss", "Box", " box"}

UnitInit ==
    /\ ConsumeUnused
    /\ call \in {[fn |-> "sanitize_unit", unit_str |-> u] : u \in UnitTexts}
    /\ ret = Pending
    /\ RestUnused

CallSanitizeUnit ==
    /\ call.fn = "sanitize_unit"
    /\ ret = Pending
    /\ ret' = Returned(sanitize_unit(call.unit_str))
    /\ UNCHANGED <<consume_vars, call, rest_vars>>

UnitNext == CallSanitizeUnit

UnitSpec == UnitInit /\ [][UnitNext]_vars

SanitizeReturned == call.fn = "sanitize_unit" /\ ret.returned

(***************************************************************************)
(* C18: sanitize_unit is idempotent on canonical names: a value of the     *)
(* synonym table, or "dimensionless", is returned unchanged; and "cups"    *)
(* and "cup" are given the same canonical name.                            *)
(***************************************************************************)
C18_IdempotentOnCanonical ==
    SanitizeReturned =>
        /\ call.unit_str \in CanonicalNames => ret.value = call.unit_str
        /\ call.unit_str \in {"cup", "cups"} => ret.value = "cup"

(***************************************************************************)
(* The matcher on its own (lines 143-172).  The query of line 143 has no   *)
(* ORDER BY, so the database may list the household's PantryItems in any   *)
(* order: OrderSpec starts the loop body on a pantry snapshot with one     *)
(* item per (household, ingredient), a required ingredient, and the        *)
(* household's items listed in an arbitrary order.                         *)
(***************************************************************************)
\* the orderings of the elements of a list
Orderings(list) ==
    {order \in [DOMAIN list -> {list[i] : i \in DOMAIN list}] :
        \A i, j \in DOMAIN list : i # j => order[i] # order[j]}

OrderInit ==
    /\ pantry \in {OtherHousehold \o rows :
                      rows \in StockedRows(current_user.household_id, 1)}
    /\ pc = "body"
    /\ all_pantry_items \in
          Orderings(QueryPantry(pantry, current_user.household_id))
    /\ iterations = 1
    /\ req_ing \in {r \in RecipeIngredient : r.quantity = 1 /\ r.unit = ""}
    /\ updated = <<>>
    /\ skipped = <<>>
    /\ before = Snapshot(pantry, <<>>, <<>>)
    /\ call = [fn |-> "match"]
    /\ ret = Pending
    /\ RestUnused

\* lines 149-172: the search, up to the item it settles on
MatchStep ==
    /\ call.fn = "match"
    /\ ret = Pending
    /\ ret' = Returned(MatchPantryItem(pantry, all_pantry_items, req_ing))
    /\ UNCHANGED <<consume_vars, call, rest_vars>>

OrderNext == MatchStep

OrderSpec == OrderInit /\ [][OrderNext]_vars

MatchReturned == call.fn = "match" /\ ret.returned

\* what the matcher settled on: the item, or "ambiguous", or "none"
Outcome(m) == IF m.kind = "item" THEN <<"item", m.key>> ELSE <<m.kind>>

(***************************************************************************)
(* C13: for a pantry snapshot with one item per (household, ingredient)    *)
(* and a required ingredient, the matcher's outcome (the exact item, the   *)
(* single substitute, ambiguous or none) is the same for every order in    *)
(* which the household's PantryItems are listed, and is the one the        *)
(* snapshot alone determines.                                              *)
(***************************************************************************)
C13_MatchIsDeterministic ==
    MatchReturned =>
        /\ \A order \in Orderings(all_pantry_items) :
              Outcome(MatchPantryItem(pantry, order, req_ing))
                  = Outcome(ret.value)
        /\ \A k \in HouseholdKeys :
              ResolvedTo(k) <=> Outcome(ret.value) = <<"item", k>>
        /\ Ambiguous <=> Outcome(ret.value) = <<"ambiguous">>
        /\ NoMatch <=> Outcome(ret.value) = <<"none">>

\* three items listed in reverse order, and the exact item found all the same
C13_Witness ==
    /\ MatchReturned
    /\ Len(all_pantry_items) = 3
    /\ all_pantry_items[1] > all_pantry_items[2]
    /\ all_pantry_items[2] > all_pantry_items[3]
    /\ \E k \in HouseholdKeys : ExactKeys = {k} /\ ret.value.key = k

(***************************************************************************)
(* Two RecipeIngredients of one recipe, with the iteration that preceded   *)
(* the current one kept as history.                                        *)
(***************************************************************************)
\* a household that stocked some of the ingredients, one or MaxQty of each
RECURSIVE SequenceRows(_, _)
SequenceRows(h, i) ==
    IF i > Len(Ingredient) THEN {<<>>}
    ELSE LET rest == SequenceRows(h, i + 1)
         IN  rest \cup
             {<<[household_id |-> h, ingredient_id |-> i,
                 quantity |-> RInt(q), unit |-> PantryAddUnit(i)]>> \o t :
                 q \in {1, MaxQty}, t \in rest}

SequenceInit ==
    /\ pantry \in {OtherHousehold \o rows :
                      rows \in SequenceRows(current_user.household_id, 1)}
    /\ pc = "idle"
    /\ all_pantry_items = <<>>
    /\ iterations = 0
    /\ req_ing = NoIngredient
    /\ updated = <<>>
    /\ skipped = <<>>
    /\ before = Snapshot(pantry, <<>>, <<>>)
    /\ FunctionsUnused
    /\ RestUnused

\* line 145, for a recipe of two RecipeIngredients: the iteration that ends
\* is remembered
SequenceNextIngredient(r) ==
    /\ iterations < 2
    /\ NextIngredient(r)
    /\ earlier' = [before |-> before, req_ing |-> req_ing]
    /\ UNCHANGED <<call, ret, sessions, requests, ingredient_table,
                   database_url, meal_plan, User>>

SequenceNext ==
    \/ Call(current_user) /\ UNCHANGED <<call, ret, rest_vars>>
    \/ \E r \in RecipeIngredient : SequenceNextIngredient(r)
    \/ SkipNoQuantity /\ UNCHANGED <<call, ret, rest_vars>>
    \/ LoopBody /\ UNCHANGED <<call, ret, rest_vars>>
    \/ Return /\ UNCHANGED <<call, ret, rest_vars>>

SequenceSpec == SequenceInit /\ [][SequenceNext]_vars

\* k is the item the matcher is to resolve the RecipeIngredient req to
ResolvesTo(req, k) ==
    LET exact == {j \in HouseholdKeys :
                     before.pantry[j].ingredient_id = req.ingredient_id}
        candidates ==
            {j \in HouseholdKeys :
                StrContains(StrLower(ItemName(j)),
                            StrLower(Ingredient[req.ingredient_id].name))}
    IN  IF exact = {} THEN candidates = {k} ELSE k \in exact

\* the unit of req and the unit of item k can be converted into one another
CompatibleWith(req, k) ==
    LET unit == UnitMeaning(req.unit)
    IN  /\ unit.known
        /\ PantryUnit(k).known
        /\ \/ unit.dim = PantryUnit(k).dim
           \/ /\ {unit.dim, PantryUnit(k).dim} = {"mass", "volume"}
              /\ HasBridgingRule(k)

\* the quantity req requires, expressed in the unit of item k
RequiredOf(req, k) ==
    LET unit == UnitMeaning(req.unit)
        r == req.quantity * unit.size
        density == cooking_conversions[Substance(ItemName(k))]
    IN  CASE unit.dim = PantryUnit(k).dim -> Rat(r, PantryUnit(k).size)
          [] unit.dim = "mass" -> Rat(r * 48, density * PantryUnit(k).size)
          [] OTHER -> Rat(r * density, 48 * PantryUnit(k).size)

\* the iteration before the current one and the current one both deducted
\* from item k
BothDeductedFrom(k) ==
    /\ Processed
    /\ earlier.req_ing # NoIngredient
    /\ earlier.req_ing.quantity > 0
    /\ ResolvesTo(earlier.req_ing, k)
    /\ CompatibleWith(earlier.req_ing, k)
    /\ ResolvedTo(k)
    /\ Compatible(k)

\* C20: when two RecipeIngredients of a recipe resolve to the same PantryItem
\* with compatible units, the item is left with max(0, max(0, p - r1) - r2),
\* p being its quantity before the first of the two and r1, r2 the required
\* quantities in the item's unit: the second deduction starts from what the
\* first one left.
C20_SecondDeductionSeesFirst ==
    \A k \in HouseholdKeys :
        BothDeductedFrom(k) =>
            pantry[k].quantity =
                ClampedDifference(
                    ClampedDifference(earlier.before.pantry[k].quantity,
                                      RequiredOf(earlier.req_ing, k)),
                    RequiredInPantryUnit(k))

\* both deductions happened, and deducting the second from the original
\* quantity would have left something else
C20_Witness ==
    \E k \in HouseholdKeys :
        /\ BothDeductedFrom(k)
        /\ pantry[k].quantity #
               ClampedDifference(earlier.before.pantry[k].quantity,
                                 RequiredInPantryUnit(k))
        /\ RLess(earlier.before.pantry[k].quantity,
                 RequiredOf(earlier.req_ing, k))

(***************************************************************************)
(* The requests that write PantryItem rows, each run to completion before  *)
(* the next: pantry 'add' and 'delete' (main.py), stock_pantry_from_list,  *)
(* update_pantry_item and mark_meal_eaten (api.py).  Deleting a row closes *)
(* the gap it leaves in the table.  call names the request served last and *)
(* ret holds its response.  The names a shopping list carries here are     *)
(* spellings of Ingredient rows that exist; the creation of an Ingredient  *)
(* row is followed in IngredientSpec.                                      *)
(***************************************************************************)
\* a lookup that never finds the PantryItem
FindNothing(table, h, i) == 0

\* PantryItem.query.filter_by(ingredient_id=..., household_id=...).first():
\* the key of the row, 0 for None
FindPantryItem(table, h, i) ==
    LET found == {k \in DOMAIN table :
                     table[k].household_id = h /\ table[k].ingredient_id = i}
    IN  IF found = {} THEN 0 ELSE CHOOSE k \in found : \A j \in found : k <= j

\* Ingredient.query.filter(func.lower(Ingredient.name) == func.lower(name))
\* .first(): the id of the row, 0 for None
FindIngredient(name) ==
    LET found == {i \in IngredientIds :
                     StrLower(Ingredient[i].name) = StrLower(name)}
    IN  IF found = {} THEN 0 ELSE CHOOSE i \in found : \A j \in found : i <= j

\* "x or 1"
OrOne(x) ==
    IF x.type = "NoneType" \/ (x.type = "str" /\ x.value = "") THEN PyInt(1)
    ELSE x

\* api.py line 518: what the inner try block of the stocking route catches
CaughtWhileStocking(exc) ==
    exc.type \in {"DimensionalityError", "UndefinedUnitError"}

\* the statements after one that may raise: they run on its value, or
\* the exception goes on
Then(result, Rest(_)) == IF result.ok THEN Rest(result.value) ELSE result

\* try: attempt / except <caught>: handler
TryExcept(attempt, Caught(_), handler) ==
    IF ~attempt.ok /\ Caught(attempt.exc) THEN handler ELSE attempt

\* api.py lines 510-519: the quantity an existing PantryItem is given, or the
\* exception that leaves the inner try block
StockExisting(item, quantity_to_add, unit_to_add) ==
    LET substance == Substance(Ingredient[item.ingredient_id].name)
        plain_sum == Ok(RAdd(item.quantity, quantity_to_add))
    IN  TryExcept(
            Then(ureg(sanitize_unit(item.unit)), LAMBDA existing_unit :
            Then(ureg(sanitize_unit(unit_to_add)), LAMBDA new_unit :
            Then(is_compatible_with(item.quantity, existing_unit, new_unit,
                                    substance), LAMBDA compatible :
                IF compatible
                THEN Then(ConvertInContext(quantity_to_add, new_unit,
                                           existing_unit, substance),
                          LAMBDA added : Ok(RAdd(item.quantity, added)))
                ELSE plain_sum))),
            CaughtWhileStocking, plain_sum)

\* api.py lines 509-527: the PantryItem found is updated, or one is created
StockOne(table, h, ingredient, pantry_item, quantity_to_add, unit_to_add) ==
    IF pantry_item # 0
    THEN Then(StockExisting(table[pantry_item], quantity_to_add, unit_to_add),
              LAMBDA quantity :
                  Ok([table EXCEPT ![pantry_item].quantity = quantity]))
    ELSE Ok(Append(table,
                   [household_id |-> h, ingredient_id |-> ingredient,
                    quantity |-> quantity_to_add, unit |-> unit_to_add]))

\* api.py lines 491-506: the rows and values one item of the list leads to
StockItem(table, h, item_data, ingredient) ==
    Then(convert_quantity_to_float(item_data.quantity),
         LAMBDA quantity_to_add :
             StockOne(table, h, ingredient,
                      FindPantryItem(table, h, ingredient),
                      quantity_to_add, item_data.unit))

RECURSIVE StockItems(_, _, _)
\* api.py lines 490-533: the loop over the items of the list; the table it
\* leaves, or the exception that ends it
StockItems(table, h, items_to_add) ==
    IF items_to_add = <<>> THEN Ok(table)
    ELSE IF Head(items_to_add).name = ""
    THEN StockItems(table, h, Tail(items_to_add))
    ELSE Then(StockItem(table, h, Head(items_to_add),
                        FindIngredient(Head(items_to_add).name)),
              LAMBDA stocked : StockItems(stocked, h, Tail(items_to_add)))

RECURSIVE ConsumeLoop(_, _, _)
\* utils.py lines 145-189 run to the end of the recipe: the table the loop
\* leaves, or the exception that leaves it
ConsumeLoop(table, items, recipe) ==
    IF recipe = <<>> THEN Ok(table)
    ELSE
    LET req == Head(recipe)
        m == MatchPantryItem(table, items, req)
        result == TryDeduct(req, table[m.key])
    IN  IF req.quantity <= 0 \/ m.kind # "item"
        THEN ConsumeLoop(table, items, Tail(recipe))
        ELSE IF result.ok
        THEN ConsumeLoop([table EXCEPT ![m.key].quantity = result.value],
                         items, Tail(recipe))
        ELSE IF ExceptException(result.exc)
        THEN ConsumeLoop(table, items, Tail(recipe))
        ELSE result

\* consume_ingredients_from_recipe(user, recipe) as one step
ConsumeRecipe(table, user, recipe) ==
    ConsumeLoop(table, QueryPantry(table, user.household_id), recipe)

\* a recipe is a list of RecipeIngredients; a meal of no recipe (a custom
\* item of the calendar) has none to consume
NoRecipe == <<>>

RECURSIVE ConsumeMeals(_, _, _)
\* api.py lines 451-455: the recipe of each meal of the slot is consumed in
\* turn, each call reading the rows the one before has written to
ConsumeMeals(table, user, meals) ==
    IF meals = <<>> THEN Ok(table)
    ELSE Then(ConsumeRecipe(table, user, Head(meals).recipe),
              LAMBDA consumed : ConsumeMeals(consumed, user, Tail(meals)))

\* a toggle that consumes the recipes whichever way the slot is toggled
MealsMarkedConsumesAlways(table, user, meals_to_update) ==
    Then(ConsumeMeals(table, user, meals_to_update),
         LAMBDA consumed :
            Ok([pantry |-> consumed,
                meal_plan |->
                    [i \in DOMAIN meals_to_update |->
                        [meals_to_update[i] EXCEPT
                            !.is_eaten = ~meals_to_update[1].is_eaten]]]))

\* api.py lines 443-460, for the rows the query of lines 434-438 found: the
\* PantryItem table and the rows as the request leaves them for the commit,
\* or the exception that rolls it back
MealsMarked(table, user, meals_to_update) ==
    LET new_status == ~meals_to_update[1].is_eaten
        marked == [i \in DOMAIN meals_to_update |->
                      [meals_to_update[i] EXCEPT !.is_eaten = new_status]]
    IN  IF new_status
        THEN Then(ConsumeMeals(table, user, meals_to_update),
                  LAMBDA consumed :
                      Ok([pantry |-> consumed, meal_plan |-> marked]))
        ELSE Ok([pantry |-> table, meal_plan |-> marked])

\* a request has been served: which it was and what it answered
Served(request, response) ==
    /\ requests' = requests + 1
    /\ call' = [fn |-> request]
    /\ ret' = Returned(response)
    /\ UNCHANGED <<pc, all_pantry_items, iterations, req_ing, updated,
                   skipped, before, earlier, sessions, ingredient_table,
                   database_url, User>>

\* a table without the row of the given key
RemoveAt(table, key) ==
    SubSeq(table, 1, key - 1) \o SubSeq(table, key + 1, Len(table))

\* main.py lines 165-169 and 192
PantryDelete(pantry_item_id) ==
    /\ requests < MaxRequests
    /\ pantry' =
          IF /\ pantry_item_id \in DOMAIN pantry
             /\ pantry[pantry_item_id].household_id = current_user.household_id
          THEN RemoveAt(pantry, pantry_item_id)
          ELSE pantry
    /\ Served("pantry_delete", "redirect")
    /\ UNCHANGED meal_plan

\* main.py lines 171-192; a float() that raises leaves the view before the
\* commit
PantryAdd(ingredient_id, container_quantity) ==
    /\ requests < MaxRequests
    /\ UNCHANGED meal_plan
    /\ LET h == current_user.household_id
           quantity == PyFloat(OrOne(container_quantity))
           request == "pantry_add"
       IN  IF ingredient_id \notin IngredientIds
           THEN pantry' = pantry /\ Served(request, "Ingredient not found.")
           ELSE IF FindPantryItem(pantry, h, ingredient_id) # 0
           THEN pantry' = pantry /\ Served(request, "already in your pantry")
           ELSE IF ~quantity.ok
           THEN pantry' = pantry /\ Served(request, "Internal Server Error")
           ELSE /\ pantry' =
                      Append(pantry,
                             [household_id |-> h,
                              ingredient_id |-> ingredient_id,
                              quantity |-> quantity.value,
                              unit |-> PantryAddUnit(ingredient_id)])
                /\ Served(request, "added to pantry")

\* api.py lines 483-541: the list is stocked and committed, or the session
\* is rolled back
StockPantryFromList(items_to_add) ==
    /\ requests < MaxRequests
    /\ UNCHANGED meal_plan
    /\ LET stocked ==
               StockItems(pantry, current_user.household_id, items_to_add)
           request == "stock_pantry_from_list"
       IN  IF stocked.ok
           THEN pantry' = stocked.value /\ Served(request, "success")
           ELSE pantry' = pantry /\ Served(request, stocked.exc.str)

\* api.py lines 543-564
UpdatePantryItem(pantry_item_id, new_quantity, new_unit) ==
    /\ requests < MaxRequests
    /\ UNCHANGED meal_plan
    /\ LET request == "update_pantry_item"
           quantity == PyFloat(new_quantity)
           item == pantry[pantry_item_id]
       IN  IF pantry_item_id \notin DOMAIN pantry
           THEN pantry' = pantry /\ Served(request, "Item not found.")
           ELSE IF item.household_id # current_user.household_id
           THEN pantry' = pantry /\ Served(request, "Item not found.")
           ELSE IF new_quantity # PyNone /\ ~quantity.ok
           THEN pantry' = pantry /\ Served(request, "Invalid quantity.")
           ELSE /\ pantry' =
                      [pantry EXCEPT
                          ![pantry_item_id] =
                              [item EXCEPT
                                  !.quantity = IF new_quantity # PyNone
                                               THEN quantity.value ELSE @,
                                  !.unit = IF new_unit # PyNone
                                           THEN new_unit.value ELSE @]]
                /\ Served(request, "Pantry item updated.")

\* api.py lines 426-467 for a slot of the calendar that holds one meal,
\* given by what the request finds there
MarkMealEaten(new_status, recipe) ==
    /\ requests < MaxRequests
    /\ UNCHANGED meal_plan
    /\ LET marked == MealsMarked(pantry, current_user,
                                 <<[recipe |-> recipe,
                                    is_eaten |-> ~new_status]>>)
           request == "mark_meal_eaten"
       IN  IF marked.ok
           THEN pantry' = marked.value.pantry /\ Served(request, "success")
           ELSE pantry' = pantry /\ Served(request, marked.exc.str)

\* the pantry before anyone of the household has stocked anything
PantryInit ==
    /\ pantry = OtherHousehold
    /\ pc = "idle"
    /\ all_pantry_items = <<>>
    /\ iterations = 0
    /\ req_ing = NoIngredient
    /\ updated = <<>>
    /\ skipped = <<>>
    /\ before = Snapshot(pantry, <<>>, <<>>)
    /\ FunctionsUnused
    /\ RestUnused

\* the values of the form field container_quantity
ContainerQuantities == {PyNone, PyStr("2"), PyStr("-1"), PyStr("x")}

\* the items of a shopping list
ShoppingItems ==
    [name : {"", "oil", "OLIVE OIL"},
     quantity : {PyStr("1"), PyStr("1 2 /"), PyInt(0 - 1)},
     unit : {"Cups", "g", "box"}]

\* the lists sent to stock_pantry_from_list
ShoppingLists ==
    {<<item>> : item \in ShoppingItems}
        \cup {<<first, second>> :
                 first \in ShoppingItems,
                 second \in {item \in ShoppingItems :
                                /\ item.quantity = PyStr("1")
                                /\ item.unit = "Cups"}}

\* the values of "quantity" and of "unit" in the JSON body of an edit
EditedQuantities == {PyNone, PyInt(MaxQty), PyInt(0 - 1), PyStr("x")}

EditedUnits == {PyNone, PyStr("g")}

\* the recipes of the meals marked: one RecipeIngredient, or the same twice
MealRecipes ==
    {<<r>> : r \in RecipeIngredient}
        \cup {<<r, r>> : r \in {x \in RecipeIngredient : x.unit = "Cups"}}

PantryNext ==
    \/ \E k \in 1..Len(pantry) + 1 : PantryDelete(k)
    \/ \E i \in IngredientIds \cup {0}, q \in ContainerQuantities :
          PantryAdd(i, q)
    \/ \E items \in ShoppingLists : StockPantryFromList(items)
    \/ \E k \in 1..Len(pantry) + 1, q \in EditedQuantities,
          u \in EditedUnits : UpdatePantryItem(k, q, u)
    \/ \E status \in BOOLEAN, recipe \in MealRecipes :
          MarkMealEaten(status, recipe)

PantrySpec == PantryInit /\ [][PantryNext]_vars

\* the quantity of every PantryItem is zero or more
NoNegativeQuantity ==
    \A k \in DOMAIN pantry : ~RLess(pantry[k].quantity, RInt(0))

\* C11: the quantity of a PantryItem is never negative, whichever request
\* wrote it: pantry 'add', stock_pantry_from_list, update_pantry_item or the
\* consumption of a recipe.
C11_QuantityNeverNegative == NoNegativeQuantity

\* the household has at most one PantryItem of each ingredient
OnePantryItemPerIngredient ==
    \A j, k \in DOMAIN pantry :
        (/\ pantry[j].household_id = pantry[k].household_id
         /\ pantry[j].ingredient_id = pantry[k].ingredient_id) => j = k

\* C12: after any sequence of pantry 'add', pantry 'delete',
\* stock_pantry_from_list and consume requests, each run to completion, a
\* household has at most one PantryItem per ingredient.
C12_OnePantryItemPerIngredient == OnePantryItemPerIngredient

\* an 'add' has just named an ingredient the household had stocked already
\* and was turned down
C12_Witness ==
    /\ call.fn = "pantry_add"
    /\ ret = Returned("already in your pantry")
    /\ Len(QueryPantry(pantry, current_user.household_id)) >= 1

(***************************************************************************)
(* Two mark_meal_eaten requests of one household served at the same time,  *)
(* each in a database session of its own.  A session reads the household's *)
(* PantryItems when consume_ingredients_from_recipe queries them, deducts  *)
(* on the rows it has loaded and writes the quantities it changed when the *)
(* view commits.  Nothing in the view or in the function takes a lock, so  *)
(* the steps of the two sessions interleave freely; what the database does *)
(* with a write to a row that changed after it was read depends on the     *)
(* database and its isolation level: it accepts the write, or it refuses   *)
(* the transaction and the view rolls back.                                *)
(***************************************************************************)
\* a household that has stocked MaxQty of every ingredient
RaceRows ==
    [i \in IngredientIds |->
        [household_id |-> current_user.household_id, ingredient_id |-> i,
         quantity |-> RInt(MaxQty), unit |-> PantryAddUnit(i)]]

NoSession == [pc |-> "idle", recipe |-> <<>>, loaded |-> <<>>, dirty |-> <<>>]

RaceInit ==
    /\ pantry = OtherHousehold \o RaceRows
    /\ sessions = <<NoSession, NoSession>>
    /\ before = Snapshot(pantry, <<>>, <<>>)
    /\ pc = "idle"
    /\ all_pantry_items = <<>>
    /\ iterations = 0
    /\ req_ing = NoIngredient
    /\ updated = <<>>
    /\ skipped = <<>>
    /\ FunctionsUnused
    /\ earlier = NoEarlier
    /\ requests = 0
    /\ ingredient_table = <<>>
    /\ database_url = DefaultDatabase
    /\ meal_plan = <<>>
    /\ User = <<>>

\* api.py lines 430-452: the request marks the meal as eaten and consumes
\* its recipe on the rows the session loads (utils.py line 143) from the
\* committed table
BeginMarkMealEaten(s, recipe) ==
    /\ sessions[s].pc = "idle"
    /\ LET consumed == ConsumeRecipe(pantry, current_user, recipe)
       IN  sessions' =
               [sessions EXCEPT
                   ![s] = [pc |-> IF consumed.ok THEN "consumed"
                                  ELSE "rolled back",
                           recipe |-> recipe,
                           loaded |-> pantry,
                           dirty |-> IF consumed.ok THEN consumed.value
                                     ELSE pantry]]
    /\ UNCHANGED pantry

\* api.py line 462: db.session.commit() writes the quantity of every row the
\* session changed
Commit(s) ==
    /\ sessions[s].pc = "consumed"
    /\ pantry' =
          [k \in DOMAIN pantry |->
              IF sessions[s].dirty[k].quantity # sessions[s].loaded[k].quantity
              THEN [pantry[k] EXCEPT !.quantity = sessions[s].dirty[k].quantity]
              ELSE pantry[k]]
    /\ sessions' = [sessions EXCEPT ![s].pc = "committed"]

\* api.py lines 465-467: the database refuses the transaction because a row
\* it writes was changed after the session read it; the view rolls back
CommitRefused(s) ==
    /\ sessions[s].pc = "consumed"
    /\ \E k \in DOMAIN pantry :
          /\ sessions[s].dirty[k].quantity # sessions[s].loaded[k].quantity
          /\ pantry[k].quantity # sessions[s].loaded[k].quantity
    /\ sessions' = [sessions EXCEPT ![s].pc = "rolled back"]
    /\ UNCHANGED pantry

RaceNext ==
    \/ \E s \in DOMAIN sessions, r \in RecipeIngredient :
          /\ BeginMarkMealEaten(s, <<r>>)
          /\ UNCHANGED <<pc, all_pantry_items, iterations, req_ing, updated,
                         skipped, before, call, ret, earlier, requests,
                         ingredient_table, database_url, meal_plan, User>>
    \/ \E s \in DOMAIN sessions :
          /\ Commit(s)
          /\ UNCHANGED <<pc, all_pantry_items, iterations, req_ing, updated,
                         skipped, before, call, ret, earlier, requests,
                         ingredient_table, database_url, meal_plan, User>>
    \/ \E s \in DOMAIN sessions :
          /\ CommitRefused(s)
          /\ UNCHANGED <<pc, all_pantry_items, iterations, req_ing, updated,
                         skipped, before, call, ret, earlier, requests,
                         ingredient_table, database_url, meal_plan, User>>

RaceSpec == RaceInit /\ [][RaceNext]_vars

\* the request of session s deducts from item k: its RecipeIngredient
\* requires a positive quantity, resolves to k and has a compatible unit
DeductsFrom(s, k) ==
    /\ sessions[s].recipe # <<>>
    /\ sessions[s].recipe[1].quantity > 0
    /\ ResolvesTo(sessions[s].recipe[1], k)
    /\ CompatibleWith(sessions[s].recipe[1], k)

\* C14: when two mark-eaten requests of a household run at the same time and
\* both deduct from the same PantryItem, the quantity committed reflects both
\* deductions: it is max(0, max(0, p - r1) - r2), as if the requests had run
\* one after the other.
C14_NoLostUpdate ==
    \A k \in HouseholdKeys :
        (/\ \A s \in DOMAIN sessions :
               sessions[s].pc = "committed" /\ DeductsFrom(s, k))
            => pantry[k].quantity =
                   ClampedDifference(
                       ClampedDifference(
                           before.pantry[k].quantity,
                           RequiredOf(sessions[1].recipe[1], k)),
                       RequiredOf(sessions[2].recipe[1], k))

(***************************************************************************)
(* The requests that create Ingredient rows, each run to completion before *)
(* the next: ai_quick_add, import_and_create_recipe, save_new_recipe,      *)
(* stock_pantry_from_list (api.py) and list_ingredients (main.py).  Only   *)
(* the names they look up and insert are followed; ingredient_table holds  *)
(* the name column.  Every handler compares lower-cased names, the stored  *)
(* one lower-cased by the database: SQLite's lower() folds the letters of  *)
(* ASCII only, PostgreSQL's those of the database's locale.                *)
(***************************************************************************)
\* one character of str.upper()
UpperChar(c) ==
    IF \E i \in DOMAIN LowerCase : LowerCase[i] = c
    THEN UpperCase[CHOOSE i \in DOMAIN LowerCase : LowerCase[i] = c]
    ELSE c

IsCased(c) ==
    \E i \in DOMAIN UpperCase : UpperCase[i] = c \/ LowerCase[i] = c

RECURSIVE TitleFrom(_, _)
\* str.title(), the character before s being a cased letter or not
TitleFrom(s, in_word) ==
    IF s = "" THEN ""
    ELSE (IF in_word THEN LowerChar(Head(s)) ELSE UpperChar(Head(s)))
             \o TitleFrom(Tail(s), IsCased(Head(s)))

\* str.title()
StrTitle(s) == TitleFrom(s, FALSE)

RECURSIVE SqliteLower(_)
\* lower() of SQLite: the letters A to Z only
SqliteLower(s) ==
    IF s = "" THEN ""
    ELSE (IF Head(s) = Accented.upper THEN Head(s) ELSE LowerChar(Head(s)))
             \o SqliteLower(Tail(s))

\* db.func.lower(...) as the database in use evaluates it
func_lower(s) ==
    IF database_url = DefaultDatabase THEN SqliteLower(s) ELSE StrLower(s)

\* Ingredient.query.filter(func.lower(Ingredient.name) == lowered).first():
\* the key of the row, 0 for None
FirstNamed(table, lowered) ==
    LET found == {i \in DOMAIN table : func_lower(table[i]) = lowered}
    IN  IF found = {} THEN 0 ELSE CHOOSE i \in found : \A j \in found : i <= j

IntegrityError ==
    [type |-> "IntegrityError",
     str |-> "UNIQUE constraint failed: ingredient.name"]

\* db.session.add(Ingredient(name=name)) and the flush: models.py declares
\* the name column unique
InsertIngredient(table, name) ==
    IF \E i \in DOMAIN table : table[i] = name THEN Raise(IntegrityError)
    ELSE Ok(Append(table, name))

\* the name a handler works with, the lower-cased name it looks up and the
\* name it stores
CleanedName(handler, name) ==
    IF handler = "stock_pantry_from_list" THEN name ELSE StrStrip(name)

LookedUp(handler, name) ==
    IF handler = "ai_quick_add" THEN StrLower(name) ELSE func_lower(name)

StoredName(handler, name) ==
    IF handler \in {"ai_quick_add", "save_new_recipe"} THEN name
    ELSE StrTitle(name)

RECURSIVE CreateIngredients(_, _, _, _)
\* the loop over the names of a request (api.py lines 76-90, 178-185,
\* 387-394, 490-498): the table it leaves, or the exception that ends it;
\* ingredient_cache is used by ai_quick_add alone
CreateIngredients(handler, table, ingredient_cache, names) ==
    IF names = <<>> THEN Ok(table)
    ELSE
    LET ingredient_name == CleanedName(handler, Head(names))
        lowered == LookedUp(handler, ingredient_name)
        cached == handler = "ai_quick_add" /\ lowered \in ingredient_cache
    IN  IF ingredient_name = "" \/ cached
        THEN CreateIngredients(handler, table, ingredient_cache, Tail(names))
        ELSE IF FirstNamed(table, lowered) # 0
        THEN CreateIngredients(handler, table,
                               ingredient_cache \cup {lowered}, Tail(names))
        ELSE Then(InsertIngredient(table,
                                   StoredName(handler, ingredient_name)),
                  LAMBDA inserted :
                      CreateIngredients(handler, inserted,
                                        ingredient_cache \cup {lowered},
                                        Tail(names)))

\* a request that creates the Ingredients its list names, then commits; an
\* exception leaves the table as it was
IngredientRequest(handler, names) ==
    /\ requests < MaxRequests
    /\ requests' = requests + 1
    /\ LET created == CreateIngredients(handler, ingredient_table, {}, names)
       IN  IF created.ok
           THEN ingredient_table' = created.value /\ ret' = Returned("success")
           ELSE ingredient_table' = ingredient_table
                    /\ ret' = Returned(created.exc.str)
    /\ call' = [fn |-> handler]
    /\ UNCHANGED <<consume_vars, earlier, sessions, database_url, meal_plan,
                   User>>

\* api.py lines 54-105
ai_quick_add(names) == IngredientRequest("ai_quick_add", names)

\* api.py lines 150-200
import_and_create_recipe(names) ==
    IngredientRequest("import_and_create_recipe", names)

\* api.py lines 375-402
save_new_recipe(names) == IngredientRequest("save_new_recipe", names)

\* api.py lines 483-541, the Ingredient rows of the request
StockCreatesIngredients(names) ==
    IngredientRequest("stock_pantry_from_list", names)

\* main.py lines 204-213: one name, looked up stripped and stored stripped
\* and title-cased
list_ingredients(name) == IngredientRequest("list_ingredients", <<name>>)

\* an empty Ingredient table, in the default database or in a PostgreSQL one
IngredientInit ==
    /\ ConsumeUnused
    /\ FunctionsUnused
    /\ earlier = NoEarlier
    /\ sessions = <<>>
    /\ requests = 0
    /\ ingredient_table = <<>>
    /\ database_url \in {DefaultDatabase, "postgresql://"}
    /\ meal_plan = <<>>
    /\ User = <<>>

\* the names requests carry: "caf~" and "CAF^" stand for the word written
\* with the accented letter in lower and in upper case
IngredientNames == {"", " oil", "Oil", "OLIVE oil", "caf~", "CAF^"}

IngredientLists ==
    {<<name>> : name \in IngredientNames}
        \cup {<<first, second>> : first, second \in IngredientNames}

IngredientNext ==
    \/ \E names \in IngredientLists : ai_quick_add(names)
    \/ \E names \in IngredientLists : import_and_create_recipe(names)
    \/ \E names \in IngredientLists : save_new_recipe(names)
    \/ \E names \in IngredientLists : StockCreatesIngredients(names)
    \/ \E name \in IngredientNames : list_ingredients(name)

IngredientSpec == IngredientInit /\ [][IngredientNext]_vars

\* C19: after any sequence of ingredient-creating requests (ai_quick_add,
\* import_and_create_recipe, save_new_recipe, stock_pantry_from_list,
\* list_ingredients), each run to completion, no two Ingredient rows have
\* names that are equal ignoring case.
C19_NoCaseDuplicates ==
    \A i, j \in DOMAIN ingredient_table :
        StrLower(ingredient_table[i]) = StrLower(ingredient_table[j]) => i = j

(***************************************************************************)
(* Further properties of consume_ingredients_from_recipe, checked under    *)
(* Spec with the vocabulary of the properties above.                       *)
(***************************************************************************)
(***************************************************************************)
(* C21: the substring search decides the outcome only when the household   *)
(* holds no PantryItem of the required ingredient; its candidates are the  *)
(* household's items whose name contains the required name, case ignored   *)
(* (not the items whose name the required name contains); and a single     *)
(* candidate is the item the deduction is made from: in a compatible unit  *)
(* its quantity becomes max(0, p - r') under its own name, in any other    *)
(* unit the failure is recorded under its name and no quantity changes.    *)
(***************************************************************************)
\* the household's items whose name the required name contains
ContainedKeys ==
    {k \in HouseholdKeys :
        StrContains(StrLower(RequiredName), StrLower(ItemName(k)))}

C21_SingleSubstituteIsUsed ==
    /\ (Processed /\ ~NoExactMatch) =>
          /\ \A i \in DOMAIN skipped :
                i > Len(before.skipped) =>
                    ~StrContains(skipped[i], "Multiple substitutes")
          /\ \A k \in DOMAIN pantry :
                k \notin ExactKeys => pantry[k] = before.pantry[k]
    /\ (Processed /\ NoExactMatch /\ CandidateKeys = {}) => NothingChanged
    /\ (Processed /\ NoExactMatch /\ Cardinality(CandidateKeys) = 1) =>
          \A k \in CandidateKeys :
              IF Compatible(k)
              THEN DeductedFrom(k,
                       ClampedDifference(before.pantry[k].quantity,
                                         RequiredInPantryUnit(k)))
              ELSE SkippedWith(ItemName(k) \o " (Error: ")

\* "Oil" is required of a household that holds "Olive Oil" and no "Oil":
\* the one item is deducted from, although its name is not contained in
\* the required name
C21_Witness ==
    /\ Processed
    /\ NoExactMatch
    /\ RequiredName = "Oil"
    /\ ContainedKeys = {}
    /\ \E k \in HouseholdKeys :
          /\ CandidateKeys = {k}
          /\ ItemName(k) = "Olive Oil"
          /\ pantry[k].quantity # before.pantry[k].quantity
          /\ updated = Append(before.updated, "Olive Oil")

(***************************************************************************)
(* C22: a positive-quantity ingredient that no PantryItem resolves, with   *)
(* no match at all or with several candidate matches, adds one entry that  *)
(* names it to skipped, changes nothing else, and the loop goes on.        *)
(***************************************************************************)
C22_UnresolvedIsReported ==
    (Processed /\ (NoMatch \/ Ambiguous)) =>
        (SkippedWith(RequiredName \o " (") /\ pc = "loop")

(***************************************************************************)
(* Further properties of sanitize_unit, checked under UnitSpec.            *)
(***************************************************************************)
\* a token without its last character when that is an "s"
WithoutOneS(token) ==
    IF Len(token) > 0 /\ SubSeq(token, Len(token), Len(token)) = "s"
    THEN SubSeq(token, 1, Len(token) - 1)
    ELSE token

\* the token lower-cased, trimmed and relieved of one trailing "s"
Singular(unit_str) == WithoutOneS(StrStrip(StrLower(unit_str)))

(***************************************************************************)
(* C23: sanitize_unit lower-cases the token, trims it, removes one         *)
(* trailing "s" and never a second one, and looks the result up in the     *)
(* synonym table: the value returned for a non-empty token is the table's  *)
(* entry for that singular, or the singular itself when it has none.       *)
(***************************************************************************)
C23_OneTrailingSRemoved ==
    (SanitizeReturned /\ call.unit_str # "") =>
        ret.value = (IF Singular(call.unit_str) \in DOMAIN unit_map
                     THEN unit_map[Singular(call.unit_str)]
                     ELSE Singular(call.unit_str))

\* the spellings under which a token might be looked up
Spellings(unit_str) ==
    {unit_str, StrLower(unit_str), StrStrip(StrLower(unit_str)),
     Singular(unit_str), WithoutOneS(Singular(unit_str))}

(***************************************************************************)
(* C24: a non-empty unit token that the synonym table does not hold, under *)
(* any of its spellings, is returned as it was given.                      *)
(***************************************************************************)
C24_UnknownTokenUnchanged ==
    (SanitizeReturned /\ call.unit_str # ""
        /\ Spellings(call.unit_str) \cap DOMAIN unit_map = {}) =>
            ret.value = call.unit_str

(***************************************************************************)
(* C25: only an ingredient of positive required quantity is processed: one *)
(* whose quantity is zero (the value an absent quantity is stored as) or   *)
(* negative is not matched, changes no PantryItem and appears in neither   *)
(* updated nor skipped, even when the household holds a PantryItem of it,  *)
(* and the loop goes on to the next ingredient.                            *)
(***************************************************************************)
\* a step taken with an ingredient of which nothing is required in hand
NotPositiveStep ==
    (pc = "body" /\ req_ing.quantity <= 0) =>
        /\ pc' = "loop"
        /\ UNCHANGED <<pantry, all_pantry_items, iterations, updated,
                       skipped>>

C25_OnlyPositiveProcessed ==
    /\ [][NotPositiveStep]_vars
    /\ []((Handled /\ req_ing.quantity <= 0) =>
              (NothingChanged /\ pc = "loop"))

\* -1 "Cups" of an ingredient the household holds 2 of: nothing was taken
C25_Witness ==
    /\ Handled
    /\ req_ing.quantity < 0
    /\ NothingChanged
    /\ \E k \in ExactKeys :
          /\ Compatible(k)
          /\ pantry[k].quantity = RInt(2)

(***************************************************************************)
(* C26: the call changes nothing but the quantity of PantryItems it        *)
(* resolved in the caller's household.  Every step of it leaves the number *)
(* of PantryItems, and each item's household, ingredient and unit, as they *)
(* were; leaves the items of other households untouched; changes the       *)
(* quantity of at most the one item the ingredient was resolved to; and    *)
(* does not write to the RecipeIngredient it is handling.                  *)
(***************************************************************************)
\* row k of the PantryItem table apart from its quantity
ApartFromQuantity(row) == [row EXCEPT !.quantity = RInt(0)]

\* what a step of the call may do to the PantryItem table and to the
\* RecipeIngredient in hand
FrameStep ==
    /\ Len(pantry') = Len(pantry)
    /\ \A k \in DOMAIN pantry :
          /\ ApartFromQuantity(pantry'[k]) = ApartFromQuantity(pantry[k])
          /\ pantry[k].household_id # current_user.household_id
                => pantry'[k] = pantry[k]
    /\ Cardinality({k \in DOMAIN pantry : pantry'[k] # pantry[k]}) <= 1
    /\ pc = "body" => req_ing' = req_ing

C26_OnlyResolvedQuantitiesChange ==
    /\ [][FrameStep]_vars
    /\ [](\A k \in DOMAIN before.pantry :
             pantry[k] # before.pantry[k] => (Processed /\ ResolvedTo(k)))

\* an item was reduced next to an item of the same ingredient that another
\* household holds, and next to another item of the caller's household
C26_Witness ==
    /\ Processed
    /\ \E k \in HouseholdKeys :
          /\ ResolvedTo(k)
          /\ pantry[k].quantity # before.pantry[k].quantity
          /\ \E j \in DOMAIN pantry :
                /\ pantry[j].household_id # current_user.household_id
                /\ pantry[j].ingredient_id = pantry[k].ingredient_id
                /\ pantry[j].quantity = RInt(MaxQty)
          /\ \E j \in HouseholdKeys : j # k /\ pantry[j].quantity.n > 0

\* text begins with prefix
StartsWith(text, prefix) ==
    /\ Len(text) >= Len(prefix)
    /\ SubSeq(text, 1, Len(prefix)) = prefix

\* the iteration added this one entry to the list
AppendedTo(list, earlier_list, entry) ==
    /\ Len(list) = Len(earlier_list) + 1
    /\ list[Len(list)] = entry

(***************************************************************************)
(* C27: an ingredient resolved through a single substring match is         *)
(* recorded under the name of the substitute PantryItem's ingredient, in   *)
(* updated and, on a unit error, in skipped, and not under the name the    *)
(* recipe requires; the entry of an ambiguous match alone begins with the  *)
(* required name.                                                          *)
(***************************************************************************)
C27_SubstituteNameRecorded ==
    /\ (Processed /\ NoExactMatch /\ Cardinality(CandidateKeys) = 1) =>
          \A k \in CandidateKeys :
              /\ ItemName(k) # RequiredName
              /\ \/ /\ AppendedTo(updated, before.updated, ItemName(k))
                    /\ skipped = before.skipped
                 \/ /\ Len(skipped) = Len(before.skipped) + 1
                    /\ StartsWith(skipped[Len(skipped)],
                                  ItemName(k) \o " (Error: ")
                    /\ ~StartsWith(skipped[Len(skipped)], RequiredName \o " (")
                    /\ updated = before.updated
    /\ (Processed /\ Ambiguous) =>
          /\ Len(skipped) = Len(before.skipped) + 1
          /\ StartsWith(skipped[Len(skipped)],
                        RequiredName \o " (Multiple substitutes found: ")
          /\ updated = before.updated

\* "Oil" was required in grams of a household that holds "Olive Oil" in
\* cups and no "Oil": the failure is in skipped under "Olive Oil"
C27_Witness ==
    /\ Processed
    /\ NoExactMatch
    /\ RequiredName = "Oil"
    /\ req_ing.unit = "g"
    /\ Len(skipped) = Len(before.skipped) + 1
    /\ StartsWith(skipped[Len(skipped)], "Olive Oil (Error: ")
    /\ \E k \in HouseholdKeys : CandidateKeys = {k}

(***************************************************************************)
(* mark_meal_eaten on one slot of the calendar, request after request:     *)
(* MealSpec starts from a stocked pantry and a slot that holds no meal,    *)
(* one meal or two, none of them eaten, and toggles the slot up to         *)
(* MaxToggles times.  before keeps the pantry the first request found.     *)
(***************************************************************************)
MaxToggles == 3

\* the MealPlan rows a slot may hold
MealSlots ==
    {<<>>}
        \cup {<<[recipe |-> recipe, is_eaten |-> FALSE]>> :
                 recipe \in MealRecipes \cup {NoRecipe}}
        \cup {<<[recipe |-> <<r>>, is_eaten |-> FALSE],
                [recipe |-> <<r>>, is_eaten |-> FALSE]>> :
                 r \in {x \in RecipeIngredient :
                           x.unit = "tbsp" /\ x.quantity = 1}}

MealInit ==
    /\ pantry \in {OtherHousehold \o rows :
                      rows \in StockedRows(current_user.household_id, 1)}
    /\ pc = "idle"
    /\ all_pantry_items = <<>>
    /\ iterations = 0
    /\ req_ing = NoIngredient
    /\ updated = <<>>
    /\ skipped = <<>>
    /\ before = Snapshot(pantry, <<>>, <<>>)
    /\ FunctionsUnused
    /\ earlier = NoEarlier
    /\ sessions = <<>>
    /\ requests = 0
    /\ ingredient_table = <<>>
    /\ database_url = DefaultDatabase
    /\ meal_plan \in MealSlots
    /\ User = <<>>

\* api.py lines 426-467 on the slot
mark_meal_eaten ==
    /\ requests < MaxToggles
    /\ LET request == "mark_meal_eaten"
       IN  IF meal_plan = <<>>
           THEN /\ UNCHANGED <<pantry, meal_plan>>
                /\ Served(request, "No meals to mark.")
           ELSE
           LET marked == MealsMarked(pantry, current_user, meal_plan)
           IN  IF marked.ok
               THEN /\ pantry' = marked.value.pantry
                    /\ meal_plan' = marked.value.meal_plan
                    /\ Served(request, "success")
               ELSE /\ UNCHANGED <<pantry, meal_plan>>
                    /\ Served(request, marked.exc.str)

MealNext == mark_meal_eaten

MealSpec == MealInit /\ [][MealNext]_vars

\* the slot holds one meal, whose recipe is the one RecipeIngredient req
OneMealOf(req) ==
    /\ Len(meal_plan) = 1
    /\ meal_plan[1].recipe = <<req>>

RECURSIVE DeductedTimes(_, _, _)
\* max(0, ... max(0, p - r) ... - r), r being taken away times over
DeductedTimes(p, r, times) ==
    IF times = 0 THEN p
    ELSE DeductedTimes(ClampedDifference(p, r), r, times - 1)

\* how often the slot has been toggled to eaten in the requests so far
TimesEaten == (requests + 1) \div 2

(***************************************************************************)
(* C28: mark_meal_eaten deducts only when the slot becomes eaten.  The     *)
(* request that toggles an eaten slot back leaves the PantryItem table as  *)
(* it is, restoring nothing; each request that toggles it to eaten deducts *)
(* the recipe again, so that eaten, un-eaten, eaten leaves an item with    *)
(* max(0, max(0, p - r) - r).                                              *)
(***************************************************************************)
C28_DeductsOnEachTransitionToEaten ==
    /\ [][(meal_plan # <<>> /\ meal_plan[1].is_eaten) =>
             (pantry' = pantry /\ ~meal_plan'[1].is_eaten)]_vars
    /\ [](\A req \in RecipeIngredient : \A k \in DOMAIN before.pantry :
             (/\ OneMealOf(req)
              /\ req.quantity > 0
              /\ ResolvesTo(req, k)
              /\ CompatibleWith(req, k)) =>
                 /\ meal_plan[1].is_eaten = (requests % 2 = 1)
                 /\ pantry =
                       [before.pantry EXCEPT ![k].quantity =
                           DeductedTimes(@, RequiredOf(req, k), TimesEaten)])

\* eaten, un-eaten, eaten with a recipe of 1 "Cups" of an ingredient of which
\* 2 cups were in stock: nothing is left
C28_Witness ==
    /\ requests = 3
    /\ Len(meal_plan) = 1
    /\ meal_plan[1].is_eaten
    /\ \E req \in RecipeIngredient : \E k \in HouseholdKeys :
          /\ OneMealOf(req)
          /\ req.quantity = 1
          /\ req.unit = "Cups"
          /\ ResolvesTo(req, k)
          /\ before.pantry[k].quantity = RInt(2)
          /\ pantry[k].quantity = RInt(0)

(***************************************************************************)
(* stock_pantry_from_list called once with a list of one item: StockSpec   *)
(* starts from a stocked pantry and a request kept in call, so that the    *)
(* table the request leaves can be set against the item it was sent.       *)
(***************************************************************************)
\* the items sent: a spelling of each Ingredient, a whole quantity, a unit
StockedItems ==
    [name : {"oil", "OLIVE OIL", "chili oil"},
     quantity : {PyStr("1"), PyStr("2")},
     unit : RecipeUnits]

StockInit ==
    /\ pantry \in {OtherHousehold \o rows :
                      rows \in StockedRows(current_user.household_id, 1)}
    /\ pc = "idle"
    /\ all_pantry_items = <<>>
    /\ iterations = 0
    /\ req_ing = NoIngredient
    /\ updated = <<>>
    /\ skipped = <<>>
    /\ before = Snapshot(pantry, <<>>, <<>>)
    /\ call \in {[fn |-> "stock_pantry_from_list", items |-> <<item>>] :
                    item \in StockedItems}
    /\ ret = Pending
    /\ RestUnused

\* api.py lines 485-541: the loop, then the commit or the rollback
CallStockPantryFromList ==
    /\ call.fn = "stock_pantry_from_list"
    /\ ret = Pending
    /\ LET stocked ==
               StockItems(pantry, current_user.household_id, call.items)
       IN  IF stocked.ok
           THEN pantry' = stocked.value /\ ret' = Returned("success")
           ELSE pantry' = pantry /\ ret' = Returned(stocked.exc.str)
    /\ UNCHANGED <<pc, all_pantry_items, iterations, req_ing, updated,
                   skipped, before, call, rest_vars>>

StockNext == CallStockPantryFromList

StockSpec == StockInit /\ [][StockNext]_vars

StockReturned == call.fn = "stock_pantry_from_list" /\ ret.returned

\* the item sent, read as a requirement: ingredient, whole quantity, unit
Added ==
    LET item_data == call.items[1]
    IN  [ingredient_id |->
             CHOOSE i \in IngredientIds :
                 StrLower(Ingredient[i].name) = StrLower(item_data.name),
         quantity |-> IF item_data.quantity = PyStr("1") THEN 1 ELSE 2,
         unit |-> item_data.unit]

\* the household's PantryItem of the ingredient sent, when there was one
ExistingKeys ==
    {k \in HouseholdKeys :
        before.pantry[k].ingredient_id = Added.ingredient_id}

(***************************************************************************)
(* C29: stock_pantry_from_list on an ingredient of which the household has *)
(* a PantryItem leaves the item's unit as it is and creates no item; when  *)
(* the unit sent can be converted into the item's unit the quantity        *)
(* becomes existing + added converted into the item's unit; when the units *)
(* are incompatible or one is unrecognized it becomes existing + added,    *)
(* the magnitude taken as it is.                                           *)
(***************************************************************************)
C29_StockingKeepsUnit ==
    \A k \in DOMAIN before.pantry :
        (StockReturned /\ k \in ExistingKeys) =>
            pantry =
                [before.pantry EXCEPT ![k].quantity =
                    IF CompatibleWith(Added, k)
                    THEN RAdd(@, RequiredOf(Added, k))
                    ELSE RAdd(@, RInt(Added.quantity))]

(***************************************************************************)
(* Plans and AI credits.  CreditSpec follows one account from signup: the  *)
(* AI routes, which load the user when the request begins                  *)
(* (require_ai_credits), wait for the model's answer and then call         *)
(* deduct_ai_credit and commit; and the Stripe routes, each served in one  *)
(* step.  A User row is [subscription_plan, ai_credits,                    *)
(* stripe_customer_id, stripe_subscription_id], "" standing for None.      *)
(* sessions holds the requests of the AI routes that are under way.        *)
(***************************************************************************)
\* __init__.py lines 26-30
PLAN_CREDITS == [free |-> 5, premium |-> 50, elite |-> 0 - 1]

\* __init__.py lines 38-41: the price ids the deployment is configured with
STRIPE_PRICE_IDS == [premium |-> "price_premium", elite |-> "price_elite"]

\* the price ids a subscription may carry: the two known ones and another
PriceIds == {"price_premium", "price_elite", "price_other"}

\* requests of the AI routes that may be under way at once
MaxSessions == 2

\* models.py lines 32-35 and auth.py lines 42-47: the row signup inserts
NewUser ==
    [subscription_plan |-> "free",
     ai_credits |-> DictGet(PLAN_CREDITS, "free", 5),
     stripe_customer_id |-> "",
     stripe_subscription_id |-> ""]

\* utils.py lines 26-29
deduct_ai_credit(user) ==
    IF user.subscription_plan # "elite" /\ user.ai_credits > 0
    THEN [user EXCEPT !.ai_credits = @ - 1]
    ELSE user

\* payments.py lines 16-22 and 150-152: the plan a price id stands for
PlanOfPrice(price_id) ==
    IF price_id = STRIPE_PRICE_IDS.premium THEN "premium"
    ELSE IF price_id = STRIPE_PRICE_IDS.elite THEN "elite"
    ELSE "free"

\* payments.py lines 9-29
update_user_subscription(user, price_id) ==
    [user EXCEPT
        !.subscription_plan = PlanOfPrice(price_id),
        !.stripe_subscription_id = "sub_1",
        !.stripe_customer_id = "cus_1",
        !.ai_credits = DictGet(PLAN_CREDITS, PlanOfPrice(price_id), 0)]

\* payments.py lines 117-120 and 170-173: back to the free plan
Downgraded(user) ==
    [user EXCEPT
        !.subscription_plan = "free",
        !.stripe_subscription_id = "",
        !.ai_credits = DictGet(PLAN_CREDITS, "free", 5)]

\* a request that is not under way
NoRequest == [pc |-> "idle", loaded |-> NewUser]

CreditInit ==
    /\ ConsumeUnused
    /\ FunctionsUnused
    /\ earlier = NoEarlier
    /\ sessions = [s \in 1..MaxSessions |-> NoRequest]
    /\ requests = 0
    /\ ingredient_table = <<>>
    /\ database_url = DefaultDatabase
    /\ meal_plan = <<>>
    /\ User = <<>>

\* what the steps of CreditSpec leave alone
credit_rest ==
    <<consume_vars, call, ret, earlier, requests, ingredient_table,
      database_url, meal_plan>>

\* auth.py lines 26-49, for the one e-mail address followed
signup ==
    /\ User = <<>>
    /\ User' = <<NewUser>>
    /\ UNCHANGED sessions

\* decorators.py lines 5-31: the request loads the user; it goes on to the
\* model when the plan is elite or a credit is left, and is refused otherwise
require_ai_credits(s) ==
    /\ User # <<>>
    /\ sessions[s].pc = "idle"
    /\ \/ User[1].subscription_plan = "elite"
       \/ User[1].ai_credits > 0
    /\ sessions' = [sessions EXCEPT ![s] = [pc |-> "generating",
                                           loaded |-> User[1]]]
    /\ UNCHANGED User

\* api.py lines 344-345 (and 102-103, 195-196, 264-265, 368-369): the model
\* has answered; deduct_ai_credit on the user the request loaded, then the
\* commit, which writes the attributes the request changed
DeductAndCommit(s) ==
    /\ sessions[s].pc = "generating"
    /\ LET user == deduct_ai_credit(sessions[s].loaded)
       IN  User' = IF user.ai_credits # sessions[s].loaded.ai_credits
                   THEN [User EXCEPT ![1].ai_credits = user.ai_credits]
                   ELSE User
    /\ sessions' = [sessions EXCEPT ![s] = NoRequest]

\* api.py lines 347-349: the model failed, or the database refused the
\* commit; the request rolls back
AiRequestFails(s) ==
    /\ sessions[s].pc = "generating"
    /\ sessions' = [sessions EXCEPT ![s] = NoRequest]
    /\ UNCHANGED User

\* payments.py lines 37-81: a Stripe customer is created for the user
create_checkout_session ==
    /\ User # <<>>
    /\ User[1].stripe_subscription_id = ""
    /\ User' = [User EXCEPT ![1].stripe_customer_id = "cus_1"]
    /\ UNCHANGED sessions

\* payments.py lines 99-110: checkout.session.completed
CheckoutCompleted(price_id) ==
    /\ User # <<>>
    /\ User[1].stripe_customer_id # ""
    /\ User' = [User EXCEPT ![1] = update_user_subscription(@, price_id)]
    /\ UNCHANGED sessions

\* payments.py lines 112-123: customer.subscription.updated or .deleted for
\* the subscription the user holds
SubscriptionChanged(price_id, cancelled) ==
    /\ User # <<>>
    /\ User[1].stripe_subscription_id = "sub_1"
    /\ User' = [User EXCEPT ![1] =
                   IF cancelled THEN Downgraded(@)
                   ELSE update_user_subscription(@, price_id)]
    /\ UNCHANGED sessions

\* payments.py lines 125-132: invoice.payment_succeeded
InvoicePaid ==
    /\ User # <<>>
    /\ User[1].stripe_customer_id = "cus_1"
    /\ User' = [User EXCEPT ![1].ai_credits =
                   IF User[1].subscription_plan \in DOMAIN PLAN_CREDITS
                   THEN PLAN_CREDITS[User[1].subscription_plan] ELSE @]
    /\ UNCHANGED sessions

\* payments.py lines 136-179: the plan is set right when it is out of step
\* with the subscription; a subscription Stripe no longer knows resets it
create_billing_portal_session(price_id, stale) ==
    /\ User # <<>>
    /\ User[1].stripe_customer_id # ""
    /\ User[1].stripe_subscription_id # ""
    /\ User' = [User EXCEPT ![1] =
                   IF stale THEN Downgraded(@)
                   ELSE IF @.subscription_plan # PlanOfPrice(price_id)
                   THEN [@ EXCEPT
                            !.subscription_plan = PlanOfPrice(price_id),
                            !.ai_credits =
                                DictGet(PLAN_CREDITS, PlanOfPrice(price_id), 0)]
                   ELSE @]
    /\ UNCHANGED sessions

CreditNext ==
    \/ signup /\ UNCHANGED credit_rest
    \/ \E s \in DOMAIN sessions : require_ai_credits(s) /\ UNCHANGED credit_rest
    \/ \E s \in DOMAIN sessions : DeductAndCommit(s) /\ UNCHANGED credit_rest
    \/ \E s \in DOMAIN sessions : AiRequestFails(s) /\ UNCHANGED credit_rest
    \/ create_checkout_session /\ UNCHANGED credit_rest
    \/ \E p \in PriceIds : CheckoutCompleted(p) /\ UNCHANGED credit_rest
    \/ \E p \in PriceIds, c \in BOOLEAN :
          SubscriptionChanged(p, c) /\ UNCHANGED credit_rest
    \/ InvoicePaid /\ UNCHANGED credit_rest
    \/ \E p \in PriceIds, stale \in BOOLEAN :
          create_billing_portal_session(p, stale) /\ UNCHANGED credit_rest

CreditSpec == CreditInit /\ [][CreditNext]_vars

(***************************************************************************)
(* C30: in every state reached through signup, deduct_ai_credit and the    *)
(* subscription updates, a user whose plan is not "elite" has              *)
(* 0 <= ai_credits <= PLAN_CREDITS[plan].                                  *)
(***************************************************************************)
C30_CreditsWithinPlan ==
    \A u \in DOMAIN User :
        User[u].subscription_plan # "elite" =>
            /\ 0 <= User[u].ai_credits
            /\ User[u].ai_credits <= PLAN_CREDITS[User[u].subscription_plan]

====
